---- MODULE Spec2Model ----
(***************************************************************************)
(* Model of the photo management page: the upload pipeline (uploadFiles,   *)
(* pump, uploadOne and the XMLHttpRequest callbacks) and the reorder       *)
(* pipeline (handleDragEnd, arrayMove, persistOrder, deletePhoto).         *)
(*                                                                         *)
(* JavaScript arrays are 0-based, TLA+ sequences 1-based: an array index k *)
(* is position k + 1 of the sequence.  Indices stored in the state         *)
(* (sort_order, idx, i) keep their 0-based JavaScript values.              *)
(*                                                                         *)
(* The runtime is single-threaded.  A macrotask (a user event, an xhr      *)
(* event, a timer, a fetch response) runs to completion and the promise    *)
(* reactions it queued (microQ) run before the next macrotask starts.      *)
(*                                                                         *)
(* Environment: record ids (Date.now() plus Math.random()) are taken to be *)
(* fresh; an XMLHttpRequest ends in exactly one of load and error, and the *)
(* response load event follows the upload load event (all bytes sent); the *)
(* HTTP status of a response is the server's free choice.                  *)
(***************************************************************************)
EXTENDS Integers, Sequences, FiniteSets, TLC

\* ------------------------------------------------------------------ bounds
MaxFiles   == 3     \* files of one batch
MaxBytes   == 1     \* size of a request body, in progress-event units
MaxPhotos  == 5     \* photos of the list that is reordered
MaxDrags   == 1     \* drag gestures of one run
MaxDeletes == 1     \* confirmed deletions of one run
MaxLegacyPhotos == 3  \* photos of the list of the earlier Management
MaxMoves   == 3     \* live moves (handleDragOverItem) of one run
MaxGestures == 2    \* native drag gestures of one run
MaxBatches == 2     \* uploadFiles calls of one run where batches overlap
MaxBatchFiles == 2  \* files of one uploadFiles call where batches overlap
MaxPending == 2     \* PATCH requests still unanswered when the next gesture starts
MaxFailures == 1    \* PATCH requests of one run that fail
MaxPersistPhotos == 2  \* photos of the list whose PATCH requests are followed
MaxCommits == 2     \* drag gestures of a run whose PATCH requests are followed
MaxEdits   == 3     \* onSaveTitle calls (keystrokes and commits) of one run
MaxFailEdits == 2   \* onSaveTitle calls of a run where requests can fail
MaxFailPhotos == 2  \* photos of the list of such a run
MaxEditPhotos == 2  \* photos of the list whose titles are edited
MaxTotal   == 8     \* bytes of the request body where progress is followed byte by byte

\* ------------------------------------------------------- program constants
UPLOAD_CONCURRENCY == 3
NoId == 0           \* useState(null): no drag is active / no drop target

Names    == {"a.jpg", "b.jpg", "c.jpg"}
Statuses == {200, 409, 500}
Terminal == {"done", "error", "skipped"}
null     == "null"

VARIABLES
  K,          \* the value of UPLOAD_CONCURRENCY this build runs with
  photos,     \* useState photos: the client's photo list
  uploads,    \* useState uploads: the panel, a list of UploadRecords
  batches,    \* one closure of uploadFiles per submitted batch
  workers,    \* one entry per uploadOne call (one XMLHttpRequest each)
  microQ,     \* workers whose promise settled, .finally reaction not yet run
  timers,     \* pending setTimeout(() => setUploads([]), 1000), FIFO
  nextId,     \* stands for Date.now() plus Math.random(): fresh per record
  refreshCalls, \* calls of refresh() so far
  activeId,   \* useState activeId of SortablePhotos
  overId,     \* the drop target dnd-kit currently resolves (closestCenter)
  patchLog,   \* every PATCH {sort_order} request issued so far, in order
  deleting,   \* ids with a DELETE request in flight
  drags,      \* drag gestures started so far
  deletes,    \* confirmed deletions so far
  dragIdx,    \* useState dragIdx of the earlier Management (native drag events)
  moves,      \* live moves made by handleDragOverItem so far
  persisted,  \* history: the ids in the order of the last persistOrder call (or load)
  pending,    \* positions of patchLog whose PATCH request is not yet answered
  failed,     \* history: positions of patchLog whose PATCH request failed
  server,     \* the server's sort_order of every photo id
  titleLog,   \* every PATCH {title} request issued so far, in order
  titlePending, \* positions of titleLog whose request is not yet answered
  alerts,     \* the messages shown with alert(), in order
  edits,      \* calls of onSaveTitle so far
  pointer,    \* the pointer: up, or down on a control of a card
  gets,       \* every GET /photos request of refresh() so far, with its state
  serverTitle, \* the server's title of every photo id
  lastOp      \* history: the handler that ran last, with its outcome

upVars  == <<K, uploads, batches, workers, microQ, timers, nextId, refreshCalls>>
ordVars == <<activeId, overId, patchLog, deleting, drags, deletes>>
extVars == <<dragIdx, moves, persisted, pending, failed, server>>
titleVars == <<titleLog, titlePending, alerts, edits, gets, serverTitle>>
uiVars  == <<titleLog, titlePending, alerts, edits, gets, serverTitle, pointer>>
vars    == <<K, photos, uploads, batches, workers, microQ, timers, nextId,
             refreshCalls, activeId, overId, patchLog, deleting, drags,
             deletes, dragIdx, moves, persisted, pending, failed, server,
             titleLog, titlePending, alerts, edits, pointer, gets, serverTitle,
             lastOp>>

\* ------------------------------------------------------------------ helpers
\* sequences over S of length lo..hi
SeqsOf(S, lo, hi) == UNION {[1..n -> S] : n \in lo..hi}

\* a Photo as the API returns it
MkPhoto(id, name, so) ==
  [id |-> id, name |-> name, title |-> "", draft |-> null, sort_order |-> so]

\* items.map(i => i.id)
IdSeq(items) == [k \in DOMAIN items |-> items[k].id]

\* the server's rows behind a list GET /photos returned: id -> sort_order
ServerOf(items) ==
  [id \in {items[k].id : k \in DOMAIN items} |->
     (CHOOSE p \in {items[k] : k \in DOMAIN items} : p.id = id).sort_order]

\* the server's titles behind a list GET /photos returned: id -> title
ServerTitleOf(items) ==
  [id \in {items[k].id : k \in DOMAIN items} |->
     (CHOOSE p \in {items[k] : k \in DOMAIN items} : p.id = id).title]

\* line 14: fetch("/photos"), the request of a refresh() call, not yet served
NewGet == [state |-> "sent", list |-> <<>>]

\* no native drag is active
NoIdx == -1

\* no button of the pointer is pressed
PointerUp == [down |-> FALSE, on |-> "none", id |-> NoId, dist |-> 0, far |-> 0, armed |-> FALSE]

\* the history and the network of the reorder pipeline, right after the load
ExtInit ==
  /\ dragIdx = NoIdx
  /\ moves = 0
  /\ persisted = IdSeq(photos)
  /\ pending = {}
  /\ failed = {}
  /\ server = ServerOf(photos)
  /\ titleLog = <<>>
  /\ titlePending = {}
  /\ alerts = <<>>
  /\ edits = 0
  /\ pointer = PointerUp
  /\ gets = <<>>
  /\ serverTitle = ServerTitleOf(photos)

\* ============================================================ upload pipeline

\* line 53: the record of a client-detected duplicate
SkipRecord(id, name) ==
  [id |-> id, name |-> name, progress |-> 0, status |-> "skipped", error |-> null]

\* line 92: the record uploadOne creates
NewRecord(id, name) ==
  [id |-> id, name |-> name, progress |-> 0, status |-> "uploading", error |-> null]

\* line 48: new Set(photos.map(p => p.name))
ExistingNames(ps) == {ps[k].name : k \in DOMAIN ps}

\* line 51: existing.has(file.name)
IsDuplicateAlways(existing, name) == FALSE
IsDuplicate(existing, name) == name \in existing

\* line 55: existing.add(file.name)
AddExistingNot(existing, name) == existing
AddExisting(existing, name) == existing \cup {name}

\* lines 50-58: list.forEach((file, idx) => ...), from array index idx on.
\* st = [existing, toUpload, ups, nid, skips]; toUpload holds the File objects,
\* here the positions of the files in the input list; skips is history: which
\* record id was created for which skipped file.
RECURSIVE intake(_, _, _)
intake(files, idx, st) ==
  IF idx >= Len(files) THEN st
  ELSE LET name == files[idx + 1] IN
       IF IsDuplicate(st.existing, name)
       THEN intake(files, idx + 1,
                   [st EXCEPT !.ups = Append(@, SkipRecord(st.nid, name)),
                              !.skips = Append(@, [id |-> st.nid, pos |-> idx + 1]),
                              !.nid = @ + 1])
       ELSE intake(files, idx + 1,
                   [st EXCEPT !.existing = AddExisting(@, name),
                              !.toUpload = Append(@, idx + 1)])

\* lines 90-93 and 126: uploadOne up to xhr.send.
\* st = [b, ws, ups, nid]: the batch closure, the workers, the panel, the id source.
uploadOne(st, pos, idx, bno) ==
  LET name == st.b.files[pos] IN
  [st EXCEPT
     !.ups = Append(@, NewRecord(st.nid, name)),
     !.ws  = Append(@, [id |-> st.nid, batch |-> bno, idx |-> idx, pos |-> pos,
                        name |-> name, xhr |-> "sending", loaded |-> 0, status |-> 0,
                        settled |-> FALSE, fin |-> FALSE, final |-> "none"]),
     !.nid = @ + 1]

\* line 69: the loop condition of pump
PumpGuardLe(b) == b.inFlight <= K /\ b.i < Len(b.toUpload)
PumpGuard(b) == b.inFlight < K /\ b.i < Len(b.toUpload)

\* line 70: toUpload[i++], the file pump takes
NextFileLast(b) == b.toUpload[Len(b.toUpload)]
NextFile(b) == b.toUpload[b.i + 1]

\* lines 68-85: pump()
RECURSIVE pump(_, _)
pump(st, bno) ==
  IF PumpGuard(st.b)
  THEN LET pos == NextFile(st.b)
           st1 == [st EXCEPT !.b.i = @ + 1, !.b.inFlight = @ + 1]
       IN pump(uploadOne(st1, pos, st1.b.i - 1, bno), bno)
  ELSE st

\* line 103: Math.round((e.loaded / e.total) * 100), for 0 <= loaded <= total, total > 0
PctDown(loaded, total) == 100 - (200 * loaded + total) \div (2 * total)
Pct(loaded, total) == (200 * loaded + total) \div (2 * total)

\* { ...x, ...upd }: the object x with the fields of upd overridden
Spread(x, upd) == [f \in DOMAIN x |-> IF f \in DOMAIN upd THEN upd[f] ELSE x[f]]

\* u.map(x => x.id === id ? { ...x, ...upd } : x)
MapRecordAll(ups, id, upd) == [k \in DOMAIN ups |-> Spread(ups[k], upd)]
MapRecord(ups, id, upd) ==
  [k \in DOMAIN ups |-> IF ups[k].id = id THEN Spread(ups[k], upd) ELSE ups[k]]

\* line 60: toUpload.length === 0
NothingToUploadNever(toUpload) == FALSE
NothingToUpload(toUpload) == Len(toUpload) = 0

\* lines 61 and 78: the delay of setTimeout(() => setUploads([]), 1000), for a
\* batch with nothing to upload and for a drained batch
ClearDelayEmpty == 1000
ClearDelayDrained == 1000

\* lines 45-88: uploadFiles(files), called by handleDrop / handleInputChange
\* with a non-empty FileList
SubmitBody(files) ==
  /\ microQ = <<>>
  /\ LET bno == Len(batches) + 1
         it  == intake(files, 0, [existing |-> ExistingNames(photos), toUpload |-> <<>>,
                                  ups |-> uploads, nid |-> nextId, skips |-> <<>>])
         b0  == [files |-> files, toUpload |-> it.toUpload, i |-> 0, inFlight |-> 0,
                 done |-> 0, drains |-> 0, promise |-> "pending",
                 known |-> ExistingNames(photos), skips |-> it.skips]
     IN IF NothingToUpload(it.toUpload)
        THEN /\ timers' = Append(timers, bno)
             /\ batches' = Append(batches, [b0 EXCEPT !.promise = "resolved"])
             /\ uploads' = it.ups
             /\ nextId' = it.nid
             /\ UNCHANGED workers
        ELSE LET st == pump([b |-> b0, ws |-> workers, ups |-> it.ups, nid |-> it.nid], bno)
             IN /\ batches' = Append(batches, st.b)
                /\ workers' = st.ws
                /\ uploads' = st.ups
                /\ nextId' = st.nid
                /\ UNCHANGED timers
  /\ lastOp' = [op |-> "uploadFiles"]
  /\ UNCHANGED <<K, photos, microQ, refreshCalls>>
  /\ UNCHANGED ordVars
  /\ UNCHANGED extVars
  /\ UNCHANGED uiVars

\* uploadFiles for the first batch of a run
Submit(files) ==
  /\ batches = <<>>
  /\ SubmitBody(files)

\* lines 101-106: xhr.upload.onprogress, e.loaded of e.total bytes sent
ProgressBody(w, loaded, total, lengthComputable) ==
  /\ microQ = <<>>
  /\ workers[w].xhr = "sending"
  /\ loaded >= workers[w].loaded
  /\ workers' = [workers EXCEPT ![w].loaded = loaded]
  /\ uploads' = IF lengthComputable
                THEN MapRecord(uploads, workers[w].id, [progress |-> Pct(loaded, total)])
                ELSE uploads
  /\ lastOp' = [op |-> "onprogress"]
  /\ UNCHANGED <<K, photos, batches, microQ, timers, nextId, refreshCalls>>
  /\ UNCHANGED ordVars
  /\ UNCHANGED extVars
  /\ UNCHANGED uiVars

\* a progress event of a request body of MaxBytes bytes
Progress(w, loaded, lengthComputable) == ProgressBody(w, loaded, MaxBytes, lengthComputable)

\* line 108: the fields xhr.upload.onload overrides in the worker's record
UploadLoadUpdateNoProgress == [status |-> "processing"]
UploadLoadUpdate == [status |-> "processing", progress |-> 100]

\* lines 107-109: xhr.upload.onload, the request body is fully sent
UploadLoad(w) ==
  /\ microQ = <<>>
  /\ workers[w].xhr = "sending"
  /\ workers' = [workers EXCEPT ![w].xhr = "sent", ![w].loaded = MaxBytes]
  /\ uploads' = MapRecord(uploads, workers[w].id, UploadLoadUpdate)
  /\ lastOp' = [op |-> "upload.onload"]
  /\ UNCHANGED <<K, photos, batches, microQ, timers, nextId, refreshCalls>>
  /\ UNCHANGED ordVars
  /\ UNCHANGED extVars
  /\ UNCHANGED uiVars

\* resolve() of the uploadOne promise: the first call settles it and queues
\* the .catch(...).finally(...) reaction
ResolveTwice(ws, q, w) ==
  [ws |-> [ws EXCEPT ![w].settled = TRUE], q |-> q \o <<w, w>>]
Resolve(ws, q, w) ==
  IF ws[w].settled THEN [ws |-> ws, q |-> q]
  ELSE [ws |-> [ws EXCEPT ![w].settled = TRUE], q |-> Append(q, w)]

\* line 111: the fields xhr.onerror overrides in the worker's record
OnErrorUpdateNoMessage == [status |-> "error"]
OnErrorUpdate == [status |-> "error", error |-> "Network error"]

\* lines 110-113: xhr.onerror, a transport failure
XhrError(w) ==
  /\ microQ = <<>>
  /\ workers[w].xhr \in {"sending", "sent"}
  /\ LET r == Resolve([workers EXCEPT ![w].xhr = "done", ![w].final = "error"], microQ, w)
     IN /\ uploads' = MapRecord(uploads, workers[w].id, OnErrorUpdate)
        /\ workers' = r.ws
        /\ microQ' = r.q
  /\ lastOp' = [op |-> "onerror"]
  /\ UNCHANGED <<K, photos, batches, timers, nextId, refreshCalls>>
  /\ UNCHANGED ordVars
  /\ UNCHANGED extVars
  /\ UNCHANGED uiVars

\* lines 115-123: the status the onload handler writes for an HTTP status
StatusForNo409(status) ==
  IF status >= 200 /\ status < 300 THEN "done" ELSE "error"
StatusFor(status) ==
  IF status >= 200 /\ status < 300 THEN "done"
  ELSE IF status = 409 THEN "skipped"
  ELSE "error"

\* line 122: `HTTP ${xhr.status}`
HttpMessageNoStatus(status) == "HTTP error"
HttpMessage(status) == "HTTP " \o ToString(status)

\* lines 115-123: the fields the onload handler overrides in the worker's record
OnLoadUpdateNoDone(status) ==
  IF StatusFor(status) = "done" THEN [status |-> "processing"]
  ELSE IF StatusFor(status) = "skipped" THEN [status |-> "skipped", error |-> null]
  ELSE [status |-> "error", error |-> HttpMessage(status)]
OnLoadUpdate(status) ==
  IF StatusFor(status) = "done" THEN [status |-> "done"]
  ELSE IF StatusFor(status) = "skipped" THEN [status |-> "skipped", error |-> null]
  ELSE [status |-> "error", error |-> HttpMessage(status)]

\* lines 115-117: refresh() is called in the 2xx branch of the onload handler
CallsRefreshNot500(status) == status # 500
CallsRefresh(status) == status >= 200 /\ status < 300

\* lines 114-125: xhr.onload
onload(w, status) ==
  /\ microQ = <<>>
  /\ LET r == Resolve([workers EXCEPT ![w].xhr = "done", ![w].status = status,
                                      ![w].final = StatusFor(status)],
                      microQ, w)
     IN /\ uploads' = MapRecord(uploads, workers[w].id, OnLoadUpdate(status))
        /\ workers' = r.ws
        /\ microQ' = r.q
  /\ refreshCalls' = IF CallsRefresh(status) THEN refreshCalls + 1 ELSE refreshCalls
  /\ gets' = IF CallsRefresh(status) THEN Append(gets, NewGet) ELSE gets
  /\ lastOp' = [op |-> "onload", status |-> status]
  /\ UNCHANGED <<K, photos, batches, timers, nextId>>
  /\ UNCHANGED ordVars
  /\ UNCHANGED extVars
  /\ UNCHANGED <<titleLog, titlePending, alerts, edits, serverTitle, pointer>>

\* the response of the backend has arrived: nginx hands the request to it
\* when the whole body is received, so upload.onload has run
XhrLoad(w, status) ==
  /\ workers[w].xhr = "sent"
  /\ onload(w, status)

\* line 76: done === toUpload.length
IsDrainedGe(b) == b.done >= Len(b.toUpload) - 1
IsDrained(b) == b.done = Len(b.toUpload)

\* line 75: inFlight--; done++
CompleteNoRelease(b) == [b EXCEPT !.done = @ + 1]
Complete(b) == [b EXCEPT !.inFlight = @ - 1, !.done = @ + 1]

\* lines 74-83: the .finally reaction of the oldest settled worker
Finally ==
  /\ microQ # <<>>
  /\ LET w   == Head(microQ)
         bno == workers[w].batch
         b1  == Complete(batches[bno])
         ws1 == [workers EXCEPT ![w].fin = TRUE]
     IN IF IsDrained(b1)
        THEN /\ timers' = Append(timers, bno)
             /\ batches' = [batches EXCEPT ![bno] = [b1 EXCEPT !.drains = @ + 1,
                                                                !.promise = "resolved"]]
             /\ workers' = ws1
             /\ UNCHANGED <<uploads, nextId>>
        ELSE LET st == pump([b |-> b1, ws |-> ws1, ups |-> uploads, nid |-> nextId], bno)
             IN /\ batches' = [batches EXCEPT ![bno] = st.b]
                /\ workers' = st.ws
                /\ uploads' = st.ups
                /\ nextId' = st.nid
                /\ UNCHANGED timers
  /\ microQ' = Tail(microQ)
  /\ lastOp' = [op |-> "finally"]
  /\ UNCHANGED <<K, photos, refreshCalls>>
  /\ UNCHANGED ordVars
  /\ UNCHANGED extVars
  /\ UNCHANGED uiVars

\* lines 61 and 78: the timer callback () => setUploads([])
TimerFire ==
  /\ microQ = <<>>
  /\ timers # <<>>
  /\ uploads' = <<>>
  /\ timers' = Tail(timers)
  /\ lastOp' = [op |-> "clear"]
  /\ UNCHANGED <<K, photos, batches, workers, microQ, nextId, refreshCalls>>
  /\ UNCHANGED ordVars
  /\ UNCHANGED extVars
  /\ UNCHANGED uiVars

\* the photo lists a batch can be submitted against: what GET /photos returned
KnownLists ==
  {<<>>, <<MkPhoto(1, "a.jpg", 0)>>, <<MkPhoto(1, "b.jpg", 0)>>,
   <<MkPhoto(1, "a.jpg", 0), MkPhoto(2, "c.jpg", 1)>>}

OrdInit ==
  /\ activeId = NoId
  /\ overId = NoId
  /\ patchLog = <<>>
  /\ deleting = {}
  /\ drags = 0
  /\ deletes = 0

Init ==
  /\ K \in 1..UPLOAD_CONCURRENCY
  /\ photos \in KnownLists
  /\ uploads = <<>>
  /\ batches = <<>>
  /\ workers = <<>>
  /\ microQ = <<>>
  /\ timers = <<>>
  /\ nextId = 1
  /\ refreshCalls = 0
  /\ lastOp = [op |-> "init"]
  /\ OrdInit
  /\ ExtInit

Next ==
  \/ \E files \in SeqsOf(Names, 1, MaxFiles) : Submit(files)
  \/ \E w \in DOMAIN workers, loaded \in 0..MaxBytes, lc \in BOOLEAN : Progress(w, loaded, lc)
  \/ \E w \in DOMAIN workers : UploadLoad(w)
  \/ \E w \in DOMAIN workers : XhrError(w)
  \/ \E w \in DOMAIN workers, status \in Statuses : XhrLoad(w, status)
  \/ Finally
  \/ TimerFire

Spec == Init /\ [][Next]_vars

\* ------------------------------------------------- properties of the uploads

\* the workers of batch b
WorkersOf(b) == {w \in DOMAIN workers : workers[w].batch = b}

\* the panel records with id
RecordsOf(id) == {k \in DOMAIN uploads : uploads[k].id = id}

\* C1: in every reachable state of a batch, the number of uploadOne workers
\* that are started and not yet settled is at most K, and so is the inFlight
\* counter of the batch.
C1_InFlightAtMostK ==
  \A b \in DOMAIN batches :
    /\ Cardinality({w \in WorkersOf(b) : ~workers[w].settled}) <= K
    /\ batches[b].inFlight <= K

\* a batch runs K workers while a file is still queued
C1_Witness ==
  \E b \in DOMAIN batches :
    /\ batches[b].inFlight = K
    /\ Cardinality({w \in WorkersOf(b) : ~workers[w].settled}) = K
    /\ batches[b].i < Len(batches[b].toUpload)

\* C2: the completed counter of a batch of N >= 1 files to upload only grows,
\* by one per worker whose completion reaction ran, never beyond N, and the
\* drain-complete event (resolve plus the scheduling of the panel clear) is
\* emitted exactly once, in the step where completed becomes N.
C2_StepOk(b) ==
  LET old == batches[b]
      new == batches'[b]
      N   == Len(old.toUpload)
      finOld == {w \in WorkersOf(b) : workers[w].fin}
      finNew == {w \in DOMAIN workers' : workers'[w].batch = b /\ workers'[w].fin}
  IN N >= 1 =>
     /\ new.done \in {old.done, old.done + 1}
     /\ new.done <= N
     /\ old.done = Cardinality(finOld)
     /\ new.done = Cardinality(finNew)
     /\ old.drains = (IF old.done = N THEN 1 ELSE 0)
     /\ IF old.done = N - 1 /\ new.done = N
        THEN /\ new.drains = old.drains + 1
             /\ new.promise = "resolved" /\ old.promise = "pending"
             /\ timers' = Append(timers, b)
        ELSE /\ new.drains = old.drains
             /\ new.promise = old.promise
             /\ \/ timers' = timers
                \/ timers' = Tail(timers)

C2_CompletedAndDrainOnce ==
  [][\A b \in DOMAIN batches : C2_StepOk(b)]_vars

\* a batch of at least two uploads has drained, its workers finished out of order
C2_Witness ==
  \E b \in DOMAIN batches :
    /\ Len(batches[b].toUpload) >= 2
    /\ batches[b].done = Len(batches[b].toUpload)
    /\ batches[b].drains = 1
    /\ \E w1, w2 \in WorkersOf(b) :
         /\ workers[w1].idx < workers[w2].idx
         /\ workers[w1].final = "error"
         /\ workers[w2].final = "skipped"

\* C3: with K = 1 the worker of file i+1 of toUpload is started only after
\* the worker of file i has reached a terminal state.
C3_SequentialWhenK1 ==
  K = 1 =>
    \A w1, w2 \in DOMAIN workers :
      (workers[w1].batch = workers[w2].batch /\ workers[w2].idx = workers[w1].idx + 1)
        => /\ workers[w1].final \in Terminal
           /\ workers[w1].fin
           /\ \A k \in RecordsOf(workers[w1].id) : uploads[k].status \in Terminal

\* with K = 1 a third file is being sent
C3_Witness ==
  /\ K = 1
  /\ \E w \in DOMAIN workers : workers[w].idx = 2 /\ workers[w].xhr = "sending"

\* C4: a file whose name is in the known photo-name set at submission gets a
\* skipped record and no worker (no POST /photos) is ever started for it.
C4_KnownNameSkippedNoRequest ==
  \A b \in DOMAIN batches :
    \A pos \in DOMAIN batches[b].files :
      batches[b].files[pos] \in batches[b].known =>
        /\ \A w \in WorkersOf(b) : workers[w].pos # pos
        /\ \E j \in DOMAIN batches[b].skips :
             /\ batches[b].skips[j].pos = pos
             /\ \A k \in RecordsOf(batches[b].skips[j].id) :
                  /\ uploads[k].status = "skipped"
                  /\ uploads[k].name = batches[b].files[pos]
             /\ (RecordsOf(batches[b].skips[j].id) = {}) => uploads = <<>>

\* a batch with a known name and an unknown name has drained, the record of
\* the known one is on the panel
C4_Witness ==
  \E b \in DOMAIN batches :
    /\ \E pos \in DOMAIN batches[b].files : batches[b].files[pos] \in batches[b].known
    /\ batches[b].toUpload # <<>>
    /\ batches[b].done = Len(batches[b].toUpload)
    /\ \E k \in DOMAIN uploads : uploads[k].status = "skipped"

\* the positions FileIntake must send to toUpload: the first occurrence of
\* every name that is not known
FirstUnknown(b) ==
  {pos \in DOMAIN batches[b].files :
     /\ batches[b].files[pos] \notin batches[b].known
     /\ \A q \in 1..(pos - 1) : batches[b].files[q] # batches[b].files[pos]}

\* C5: toUpload holds, in input order, exactly the first occurrence of every
\* name that is not known; its names are pairwise distinct and unknown; every
\* other file of the batch is skipped.
C5_IntakePartition ==
  \A b \in DOMAIN batches :
    LET tu == batches[b].toUpload
        fs == batches[b].files
        sk == batches[b].skips
    IN /\ {tu[k] : k \in DOMAIN tu} = FirstUnknown(b)
       /\ \A k1, k2 \in DOMAIN tu : k1 < k2 => tu[k1] < tu[k2]
       /\ \A k1, k2 \in DOMAIN tu : k1 # k2 => fs[tu[k1]] # fs[tu[k2]]
       /\ \A k \in DOMAIN tu : fs[tu[k]] \notin batches[b].known
       /\ {sk[j].pos : j \in DOMAIN sk} = DOMAIN fs \ FirstUnknown(b)
       /\ Len(sk) + Len(tu) = Len(fs)

\* a batch holds the same unknown name twice with another name in between
C5_Witness ==
  \E b \in DOMAIN batches :
    LET fs == batches[b].files IN
    /\ Len(fs) = 3
    /\ fs[1] = fs[3] /\ fs[1] # fs[2]
    /\ fs[1] \notin batches[b].known
    /\ batches[b].toUpload = <<1, 2>>

\* the panel records of client-detected duplicates
ClientSkips ==
  {k \in DOMAIN uploads :
     \E b \in DOMAIN batches : \E j \in DOMAIN batches[b].skips :
        batches[b].skips[j].id = uploads[k].id}

\* the panel records of workers whose response was a 409
ServerSkips ==
  {k \in DOMAIN uploads :
     \E w \in DOMAIN workers :
        /\ workers[w].id = uploads[k].id
        /\ workers[w].xhr = "done" /\ workers[w].status = 409}

\* the state of a record: everything but its identity
RecordState(r) == [progress |-> r.progress, status |-> r.status, error |-> r.error]

\* C6, as claimed: a record skipped on a 409 and a record skipped by the
\* client-side check are state-identical.
C6_Original ==
  \A k1 \in ServerSkips, k2 \in ClientSkips :
    RecordState(uploads[k1]) = RecordState(uploads[k2])

\* C6, amended: both records have status skipped and error null, and a 409
\* is never recorded as status error; their progress may differ.
C6_SkipsAgreeOnStatusAndError ==
  /\ \A k \in ServerSkips : uploads[k].status = "skipped" /\ uploads[k].error = null
  /\ \A k \in ClientSkips : uploads[k].status = "skipped" /\ uploads[k].error = null

\* the panel shows a 409 record next to a client-side skip
C6_Witness ==
  /\ ServerSkips # {}
  /\ ClientSkips # {}

\* no worker has failed or been answered 409 so far
NoFailures == \A w \in DOMAIN workers : workers[w].final \in {"none", "done"}

\* the number of panel records with status st
CountStatus(st) == Cardinality({k \in DOMAIN uploads : uploads[k].status = st})

PhotoNames == <<"a.jpg", "b.jpg", "c.jpg", "d.jpg", "e.jpg", "f.jpg", "g.jpg", "h.jpg">>

\* items.findIndex(i => i.id === id): the 0-based index, -1 if absent
findIndex(items, id) ==
  IF \E k \in DOMAIN items : items[k].id = id
  THEN (CHOOSE k \in DOMAIN items : items[k].id = id /\ \A j \in 1..(k - 1) : items[j].id # id) - 1
  ELSE -1

\* Array.prototype.splice(at, 1): the array without the element at index at
RemoveAt(arr, at) ==
  [k \in 1..(Len(arr) - 1) |-> IF k < at + 1 THEN arr[k] ELSE arr[k + 1]]

\* Array.prototype.splice(at, 0, x): the array with x inserted at index at
InsertAt(arr, at, x) ==
  [k \in 1..(Len(arr) + 1) |->
     IF k < at + 1 THEN arr[k] ELSE IF k = at + 1 THEN x ELSE arr[k - 1]]

\* arrayMove of @dnd-kit/sortable, for 0 <= from, to < array.length:
\* newArray.splice(to, 0, newArray.splice(from, 1)[0])
arrayMoveSwap(array, from, to) ==
  [array EXCEPT ![from + 1] = array[to + 1], ![to + 1] = array[from + 1]]
arrayMove(array, from, to) ==
  InsertAt(RemoveAt(array, from), to, array[from + 1])

\* line 131: p.sort_order !== idx
NeedsPatchAlways(p, idx) == TRUE
NeedsPatch(p, idx) == p.sort_order # idx

\* line 136: p.sort_order = idx, the optimistic update
SetSortOrderLater(order, idx) == order
SetSortOrder(order, idx) == [order EXCEPT ![idx + 1].sort_order = idx]

\* lines 130-139: order.forEach((p, idx) => ...), from array index idx on.
\* st = [order, log]: the photo objects (sort_order is assigned in place) and
\* the PATCH requests issued.
RECURSIVE persistFrom(_, _)
persistFrom(st, idx) ==
  IF idx >= Len(st.order) THEN st
  ELSE LET p == st.order[idx + 1] IN
       IF NeedsPatch(p, idx)
       THEN persistFrom([order |-> SetSortOrder(st.order, idx),
                         log   |-> Append(st.log, [id |-> p.id, sort_order |-> idx])],
                        idx + 1)
       ELSE persistFrom(st, idx + 1)

\* lines 129-140: persistOrder(order)
persistOrder(order, log) == persistFrom([order |-> order, log |-> log], 0)

\* line 85 and 88: the early returns of handleDragEnd
DragIsNoopLax(active, over, oldIndex, newIndex) ==
  \/ over = NoId
  \/ oldIndex = -1
  \/ newIndex = -1
DragIsNoop(active, over, oldIndex, newIndex) ==
  \/ over = NoId
  \/ active = over
  \/ oldIndex = -1
  \/ newIndex = -1
  \/ oldIndex = newIndex

Ids(items) == {items[k].id : k \in DOMAIN items}

\* line 98: onDragStart, the pointer has passed the activation distance on a card
DragStartBody(id) ==
  /\ activeId = NoId
  /\ id \in Ids(photos)
  /\ activeId' = id
  /\ overId' = id
  /\ drags' = drags + 1
  /\ lastOp' = [op |-> "dragStart"]
  /\ UNCHANGED <<photos, patchLog, deleting, deletes>>
  /\ UNCHANGED upVars
  /\ UNCHANGED extVars
  /\ UNCHANGED titleVars

\* a drag gesture of a run of at most MaxDrags gestures
DragStart(id) ==
  /\ drags < MaxDrags
  /\ DragStartBody(id)
  /\ UNCHANGED pointer

\* line 97: closestCenter resolves another drop target (or none) while dragging
DragOver(target) ==
  /\ activeId # NoId
  /\ target \in Ids(photos) \cup {NoId}
  /\ target # overId
  /\ overId' = target
  /\ lastOp' = [op |-> "dragOver"]
  /\ UNCHANGED <<photos, activeId, patchLog, deleting, drags, deletes>>
  /\ UNCHANGED upVars
  /\ UNCHANGED extVars
  /\ UNCHANGED uiVars

\* lines 83-92: handleDragEnd({active, over})
handleDragEnd ==
  /\ activeId # NoId
  /\ LET oldIndex == findIndex(photos, activeId)
         newIndex == findIndex(photos, overId)
     IN IF DragIsNoop(activeId, overId, oldIndex, newIndex)
        THEN /\ UNCHANGED <<photos, patchLog, pending, persisted>>
             /\ lastOp' = [op |-> "dragEnd", moved |-> FALSE, active |-> activeId,
                           over |-> overId, oldIndex |-> oldIndex, newIndex |-> newIndex]
        ELSE LET next == arrayMove(photos, oldIndex, newIndex)
                 st   == persistOrder(next, patchLog)
             IN /\ photos' = st.order
                /\ patchLog' = st.log
                /\ pending' = pending \cup ((Len(patchLog) + 1)..Len(st.log))
                /\ persisted' = IdSeq(next)
                /\ lastOp' = [op |-> "dragEnd", moved |-> TRUE, active |-> activeId,
                              over |-> overId, oldIndex |-> oldIndex, newIndex |-> newIndex]
  /\ activeId' = NoId
  /\ overId' = NoId
  /\ UNCHANGED <<deleting, drags, deletes, dragIdx, moves, failed, server>>
  /\ UNCHANGED titleVars
  /\ UNCHANGED upVars

\* line 99: onDragEnd, the pointer is released over the drop target
DragEnd ==
  /\ handleDragEnd
  /\ UNCHANGED pointer

\* line 100: onDragCancel
DragCancelMoves ==
  /\ activeId # NoId
  /\ activeId' = NoId
  /\ overId' = NoId
  /\ lastOp' = [op |-> "dragCancel", active |-> activeId, over |-> overId]
  /\ photos' = IF findIndex(photos, activeId) # -1 /\ findIndex(photos, overId) # -1
                THEN arrayMove(photos, findIndex(photos, activeId), findIndex(photos, overId))
                ELSE photos
  /\ UNCHANGED <<patchLog, deleting, drags, deletes>>
  /\ UNCHANGED upVars
  /\ UNCHANGED extVars
  /\ UNCHANGED uiVars
DragCancel ==
  /\ activeId # NoId
  /\ activeId' = NoId
  /\ overId' = NoId
  /\ lastOp' = [op |-> "dragCancel", active |-> activeId, over |-> overId]
  /\ UNCHANGED <<photos, patchLog, deleting, drags, deletes>>
  /\ UNCHANGED upVars
  /\ UNCHANGED extVars
  /\ UNCHANGED uiVars

\* lines 20-22: deletePhoto(id), confirm() answered by the user; a second
\* DELETE of an id whose request is still in flight is left out (its response
\* would filter an id that is already gone, or be the one that removes it)
deletePhotoAnyway(id, confirmed) ==
  /\ id \in Ids(photos)
  /\ id \notin deleting
  /\ deletes < MaxDeletes
  /\ deleting' = deleting \cup {id}
  /\ deletes' = deletes + 1
  /\ lastOp' = [op |-> "deletePhoto", confirmed |-> confirmed]
  /\ UNCHANGED <<photos, activeId, overId, patchLog, drags>>
  /\ UNCHANGED upVars
  /\ UNCHANGED extVars
  /\ UNCHANGED titleVars
deletePhoto(id, confirmed) ==
  /\ id \in Ids(photos)
  /\ id \notin deleting
  /\ deletes < MaxDeletes
  /\ IF confirmed
     THEN /\ deleting' = deleting \cup {id}
          /\ deletes' = deletes + 1
     ELSE UNCHANGED <<deleting, deletes>>
  /\ lastOp' = [op |-> "deletePhoto", confirmed |-> confirmed]
  /\ UNCHANGED <<photos, activeId, overId, patchLog, drags>>
  /\ UNCHANGED upVars
  /\ UNCHANGED extVars
  /\ UNCHANGED titleVars

\* SortablePhotos.jsx line 52: the Delete button of a card
DeletePhoto(id, confirmed) ==
  /\ deletePhoto(id, confirmed)
  /\ UNCHANGED pointer

\* line 23: ph => ph.id !== id
Filter(p, id) == SelectSeq(p, LAMBDA ph : ph.id # id)

\* line 23: the DELETE fetch resolved (any HTTP response)
DeleteResolved(id) ==
  /\ id \in deleting
  /\ deleting' = deleting \ {id}
  /\ photos' = Filter(photos, id)
  /\ lastOp' = [op |-> "deleteResolved"]
  /\ UNCHANGED <<activeId, overId, patchLog, drags, deletes>>
  /\ UNCHANGED upVars
  /\ UNCHANGED extVars
  /\ UNCHANGED uiVars

\* line 24: the DELETE fetch rejected (network failure), console.error
DeleteRejected(id) ==
  /\ id \in deleting
  /\ deleting' = deleting \ {id}
  /\ lastOp' = [op |-> "deleteRejected"]
  /\ UNCHANGED <<photos, activeId, overId, patchLog, drags, deletes>>
  /\ UNCHANGED upVars
  /\ UNCHANGED extVars
  /\ UNCHANGED uiVars

\* ------------------------------------------------- properties of the reorder

\* the PATCH requests a step issues
NewPatches == SubSeq(patchLog', Len(patchLog) + 1, Len(patchLog'))

\* the last-known sort_order of the photo with this id, before the step
SortOrderOf(id) == photos[findIndex(photos, id) + 1].sort_order

\* the step is a handleDragEnd that moves and commits
IsCommitStep == activeId # NoId /\ lastOp'.op = "dragEnd" /\ lastOp'.moved

\* C7: a commit issues a position patch for a photo if and only if its index
\* in the committed order differs from its last-known sort_order, exactly one
\* request per such photo, carrying the new index, and no other request.
C7_StepOk ==
  IsCommitStep =>
    /\ Len(patchLog') >= Len(patchLog)
    /\ SubSeq(patchLog', 1, Len(patchLog)) = patchLog
    /\ \A j \in DOMAIN NewPatches : NewPatches[j].id \in Ids(photos')
    /\ \A k \in DOMAIN photos' :
         LET id == photos'[k].id
             sent == {j \in DOMAIN NewPatches : NewPatches[j].id = id}
         IN /\ Cardinality(sent) = (IF SortOrderOf(id) # k - 1 THEN 1 ELSE 0)
            /\ \A j \in sent : NewPatches[j].sort_order = k - 1

C7_PatchIffIndexChanged == [][C7_StepOk]_vars

\* the first commit of a run patched some photos of the list and left at
\* least one photo, whose index still equals its sort_order, without a request
C7_Witness ==
  /\ lastOp.op = "dragEnd" /\ lastOp.moved
  /\ drags = 1
  /\ Len(patchLog) >= 2
  /\ Len(patchLog) < Len(photos)

\* C8: a drop whose source and target index are equal, or where the dragged
\* or the target id is not in the list, leaves the photo sequence unchanged
\* and issues no patch request.
C8_StepOk ==
  (/\ activeId # NoId
   /\ lastOp'.op = "dragEnd"
   /\ \/ findIndex(photos, activeId) = findIndex(photos, overId)
      \/ findIndex(photos, activeId) = -1
      \/ findIndex(photos, overId) = -1)
  => photos' = photos /\ patchLog' = patchLog

C8_NoopMove == [][C8_StepOk]_vars

\* a photo of a list with a gap in its sort_order values was dropped on itself
C8_Witness ==
  /\ lastOp.op = "dragEnd" /\ ~lastOp.moved
  /\ lastOp.oldIndex = lastOp.newIndex /\ lastOp.oldIndex >= 0
  /\ \E k \in DOMAIN photos : photos[k].sort_order # k - 1

\* the dragged photo had been deleted before the drop
C8_WitnessGone ==
  /\ lastOp.op = "dragEnd" /\ ~lastOp.moved
  /\ lastOp.oldIndex = -1 /\ lastOp.newIndex >= 0

\* the first gesture of a run moved index 4 of the loaded 5-photo list to
\* index 0 and committed
Move4To0 ==
  /\ lastOp.op = "dragEnd" /\ lastOp.moved
  /\ lastOp.oldIndex = 4 /\ lastOp.newIndex = 0
  /\ drags = 1 /\ deletes = 0
  /\ Len(photos) = 5

\* C10, as claimed: moving index 4 of a sorted 5-photo list to index 0 and
\* committing sends 4 patch requests.
C10_Original == Move4To0 => Len(patchLog) = 4

\* C10, amended: the move changes the index of all five photos, so the commit
\* sends 5 patch requests, one per photo, each carrying the photo's new index.
C10_Move4To0SendsFive ==
  Move4To0 =>
    /\ Len(patchLog) = 5
    /\ \A k \in DOMAIN photos :
         /\ Cardinality({j \in DOMAIN patchLog : patchLog[j].id = photos[k].id}) = 1
         /\ \E j \in DOMAIN patchLog :
              patchLog[j] = [id |-> photos[k].id, sort_order |-> k - 1]
    /\ [k \in DOMAIN photos |-> photos[k].id] = <<5, 1, 2, 3, 4>>

\* the move of index 4 to index 0 has been committed
C10_Witness == Move4To0 /\ patchLog # <<>>

\* the list GET /photos returns at load: n photos in sort_order 0..n-1
LoadedList(n) == [k \in 1..n |-> MkPhoto(k, PhotoNames[k], k - 1)]

UpIdle ==
  /\ K = UPLOAD_CONCURRENCY
  /\ uploads = <<>>
  /\ batches = <<>>
  /\ workers = <<>>
  /\ microQ = <<>>
  /\ timers = <<>>
  /\ nextId = 1
  /\ refreshCalls = 0

InitOrder ==
  /\ UpIdle
  /\ \E n \in 1..MaxPhotos : photos = LoadedList(n)
  /\ lastOp = [op |-> "init"]
  /\ OrdInit
  /\ ExtInit

NextOrder ==
  \/ \E id \in 1..(MaxPhotos + 1) : DragStart(id)
  \/ \E t \in 0..(MaxPhotos + 1) : DragOver(t)
  \/ DragEnd
  \/ DragCancel
  \/ \E id \in 1..(MaxPhotos + 1), c \in BOOLEAN : DeletePhoto(id, c)
  \/ \E id \in deleting : DeleteResolved(id)
  \/ \E id \in deleting : DeleteRejected(id)

SpecOrder == InitOrder /\ [][NextOrder]_vars

\* ===================================== reorder pipeline, earlier Management
\* (native drag events: the list is moved live while dragging, the drop commits)

\* line 361: handleDragStartItem(idx)
DragStartItem(idx) ==
  /\ dragIdx = NoIdx
  /\ drags < MaxGestures
  /\ idx \in 0..(Len(photos) - 1)
  /\ dragIdx' = idx
  /\ drags' = drags + 1
  /\ lastOp' = [op |-> "dragStartItem"]
  /\ UNCHANGED <<photos, activeId, overId, patchLog, deleting, deletes>>
  /\ UNCHANGED <<moves, persisted, pending, failed, server>>
  /\ UNCHANGED uiVars
  /\ UNCHANGED upVars

\* the value of `moved` when arr.splice(dragIdx, 1) removed nothing
undefined == [id |-> NoId, name |-> "undefined", title |-> "undefined",
              draft |-> "undefined", sort_order |-> NoIdx]

\* lines 367-370: arr.splice(dragIdx, 1) and arr.splice(idx, 0, moved), for
\* 0 <= idx < arr.length; a dragIdx past the end removes nothing, and then
\* moved is undefined
spliceMoveSwap(arr, from, to) ==
  [arr EXCEPT ![from + 1] = arr[to + 1], ![to + 1] = arr[from + 1]]
spliceMove(arr, from, to) ==
  IF from < Len(arr)
  THEN InsertAt(RemoveAt(arr, from), to, arr[from + 1])
  ELSE InsertAt(arr, to, undefined)

\* lines 363-373: handleDragOverItem(idx), the dragged card is over the card
\* rendered at index idx
DragOverItem(idx) ==
  /\ dragIdx # NoIdx
  /\ dragIdx # idx
  /\ moves < MaxMoves
  /\ idx \in 0..(Len(photos) - 1)
  /\ photos' = spliceMove(photos, dragIdx, idx)
  /\ dragIdx' = idx
  /\ moves' = moves + 1
  /\ lastOp' = [op |-> "dragOverItem"]
  /\ UNCHANGED <<activeId, overId, patchLog, deleting, drags, deletes>>
  /\ UNCHANGED <<persisted, pending, failed, server>>
  /\ UNCHANGED uiVars
  /\ UNCHANGED upVars

\* lines 375-381: handleDragEndItem, the drop commits the current order
DragEndItem ==
  /\ dragIdx # NoIdx
  /\ LET st == persistOrder(photos, patchLog)
     IN /\ photos' = st.order
        /\ patchLog' = st.log
        /\ pending' = pending \cup ((Len(patchLog) + 1)..Len(st.log))
        /\ lastOp' = [op |-> "dragEndItem", sent |-> Len(st.log) - Len(patchLog)]
  /\ persisted' = IdSeq(photos)
  /\ dragIdx' = NoIdx
  /\ UNCHANGED <<activeId, overId, deleting, drags, deletes>>
  /\ UNCHANGED <<moves, failed, server>>
  /\ UNCHANGED uiVars
  /\ UNCHANGED upVars

\* line 294: the DELETE fetch resolved; here only between two gestures
DeleteResolvedIdle(id) ==
  /\ dragIdx = NoIdx
  /\ DeleteResolved(id)

InitLegacy ==
  /\ UpIdle
  /\ \E n \in 1..MaxLegacyPhotos : photos = LoadedList(n)
  /\ lastOp = [op |-> "init"]
  /\ OrdInit
  /\ ExtInit

NextLegacy ==
  \/ \E idx \in 0..MaxLegacyPhotos : DragStartItem(idx)
  \/ \E idx \in 0..MaxLegacyPhotos : DragOverItem(idx)
  \/ DragEndItem
  \/ \E id \in 1..(MaxLegacyPhotos + 1) : DeletePhoto(id, TRUE)
  \/ \E id \in deleting : DeleteResolvedIdle(id)

SpecLegacy == InitLegacy /\ [][NextLegacy]_vars

\* the ids of seq that are still in the list, in the order of seq
StillListed(seq, items) == SelectSeq(seq, LAMBDA id : id \in Ids(items))

\* the step commits the order the list has now (handleDragEndItem)
IsLegacyCommit == dragIdx # NoIdx /\ lastOp'.op = "dragEndItem"

\* C11, as claimed: a commit of a list that the moves returned to the last
\* persisted order (of the photos still listed) issues no patch request.
C11_OriginalStep ==
  (IsLegacyCommit /\ IdSeq(photos) = StillListed(persisted, photos))
    => patchLog' = patchLog

C11_AmendedStep ==
  (IsLegacyCommit /\ IdSeq(photos) = persisted)
    => patchLog' = patchLog /\ photos' = photos

Min(a, b) == IF a <= b THEN a ELSE b

\* the workers whose request fails in this step (xhr.onerror, or xhr.onload
\* with a status that is neither 2xx nor 409)
FailingNow ==
  {w \in DOMAIN workers : workers[w].final = "none" /\ workers'[w].final = "error"}

\* the failure handler touches the failing worker's record and nothing else
C12_StepOk ==
  \A w \in FailingNow :
    /\ Len(uploads') = Len(uploads)
    /\ \A k \in DOMAIN uploads :
         IF uploads[k].id = workers[w].id
         THEN uploads'[k].status = "error"
         ELSE uploads'[k] = uploads[k]
    /\ \A v \in DOMAIN workers : v # w => workers'[v] = workers[v]
    /\ batches' = batches

\* the scheduler is not held up by what the workers ended with: between two
\* completion reactions it has started every file it has room for, a drained
\* batch has started every file of toUpload and each ended in a terminal
\* state, and a record shows the terminal state of its own worker
C12_KeepsRunning ==
  /\ \A b \in DOMAIN batches :
       LET N == Len(batches[b].toUpload) IN
       /\ microQ = <<>> => batches[b].i = Min(N, batches[b].done + K)
       /\ (N >= 1 /\ batches[b].done = N) =>
            /\ {workers[w].idx : w \in WorkersOf(b)} = 0..(N - 1)
            /\ \A w \in WorkersOf(b) : workers[w].final \in Terminal
  /\ \A w \in DOMAIN workers : \A k \in RecordsOf(workers[w].id) :
       workers[w].final # "none" => uploads[k].status = workers[w].final

\* C12: the failure of one upload (network error or non-2xx, non-409 response)
\* changes the failing file's record only; no sibling record, no other worker
\* and no scheduler counter changes in that step, the scheduler goes on
\* starting the queued files, and a drained batch has started every file of
\* toUpload and brought each to its own terminal state.
C12_FailureIsLocal == [][C12_StepOk /\ C12_KeepsRunning']_vars

\* K = 1: the first file failed in transport, the second with HTTP 500, the
\* third was still started and ended done; the panel shows all three
C12_Witness ==
  /\ K = 1
  /\ \E b \in DOMAIN batches :
       /\ batches[b].done = 3
       /\ \E w1, w2, w3 \in WorkersOf(b) :
            /\ workers[w1].idx = 0 /\ workers[w2].idx = 1 /\ workers[w3].idx = 2
            /\ \E k1 \in RecordsOf(workers[w1].id), k2 \in RecordsOf(workers[w2].id),
                  k3 \in RecordsOf(workers[w3].id) :
                 /\ uploads[k1].status = "error" /\ uploads[k1].error = "Network error"
                 /\ uploads[k2].status = "error" /\ uploads[k2].error = HttpMessage(500)
                 /\ uploads[k3].status = "done"

\* how often worker w is in the queue of completion reactions
Queued(w) == Cardinality({k \in DOMAIN microQ : microQ[k] = w})

\* C13: a worker's promise is settled exactly when its request reached its
\* terminal transition (done, error, or skipped by a 409), on either callback
\* path; its completion reaction is then queued once and runs once, so the
\* completed counter of its batch equals the number of its workers whose
\* reaction ran, which between two reactions is the number of its workers in a
\* terminal state.
C13_CompletionOnce ==
  /\ \A w \in DOMAIN workers :
       /\ workers[w].settled <=> workers[w].final \in Terminal
       /\ workers[w].settled <=> workers[w].xhr = "done"
       /\ workers[w].fin => workers[w].settled
       /\ Queued(w) = (IF workers[w].settled /\ ~workers[w].fin THEN 1 ELSE 0)
       /\ microQ = <<>> => (workers[w].fin <=> workers[w].final \in Terminal)
  /\ \A b \in DOMAIN batches :
       /\ batches[b].done = Cardinality({w \in WorkersOf(b) : workers[w].fin})
       /\ batches[b].inFlight = Cardinality({w \in WorkersOf(b) : ~workers[w].fin})
       /\ batches[b].done + batches[b].inFlight = batches[b].i

\* three workers of a batch ended on the three paths (2xx, 409, transport
\* error) and the batch counted three completions
C13_Witness ==
  \E b \in DOMAIN batches :
    /\ batches[b].done = 3
    /\ {workers[w].final : w \in WorkersOf(b)} = Terminal
    /\ \E w \in WorkersOf(b) : workers[w].final = "error" /\ workers[w].status = 0

\* record k keeps its place, its id and its status in this step
KeepsStatus(k) ==
  /\ k \in DOMAIN uploads'
  /\ uploads'[k].id = uploads[k].id
  /\ uploads'[k].status = uploads[k].status

\* C14: a record whose status is done, error or skipped keeps that status in
\* every step, whichever callback or operation runs, until the panel clear
\* removes it together with all other records.
C14_TerminalAbsorbing ==
  [][\A k \in DOMAIN uploads :
       uploads[k].status \in Terminal =>
         \/ KeepsStatus(k)
         \/ lastOp'.op = "clear" /\ uploads' = <<>>]_vars

\* callbacks of a sibling ran after a record had become terminal: the panel
\* holds a done record, an error record and a record that is now processing
C14_Witness ==
  /\ lastOp.op = "upload.onload"
  /\ \E k1, k2, k3 \in DOMAIN uploads :
       /\ k1 < k3 /\ k2 < k3
       /\ uploads[k1].status = "done"
       /\ uploads[k2].status = "error"
       /\ uploads[k3].status = "processing"

\* ---------------------------------------------- one upload, followed byte by byte

\* uploadFiles with a single file
SubmitOne(files) ==
  /\ Len(files) = 1
  /\ Submit(files)

\* a progress event of a request body of MaxTotal bytes
ProgressOfTotal(w, loaded, lengthComputable) ==
  ProgressBody(w, loaded, MaxTotal, lengthComputable)

NextProgress ==
  \/ \E files \in SeqsOf(Names, 1, 1) : SubmitOne(files)
  \/ \E w \in DOMAIN workers, loaded \in 0..MaxTotal, lc \in BOOLEAN :
       ProgressOfTotal(w, loaded, lc)
  \/ \E w \in DOMAIN workers : UploadLoad(w)
  \/ \E w \in DOMAIN workers : XhrError(w)
  \/ \E w \in DOMAIN workers, status \in Statuses : XhrLoad(w, status)
  \/ Finally
  \/ TimerFire

SpecProgress == Init /\ [][NextProgress]_vars

\* C15: a progress event, which the request fires only while its body is
\* being sent, leaves the status of every record as it is (uploading for the
\* worker's own record), and sets the worker's progress to an integer in
\* 0..100 that is not lower than the progress the record had.
C15_StepOk ==
  lastOp'.op = "onprogress" =>
    /\ Len(uploads') = Len(uploads)
    /\ \A k \in DOMAIN uploads :
         /\ uploads'[k].status = uploads[k].status
         /\ uploads'[k].progress \in 0..100
         /\ uploads'[k].progress >= uploads[k].progress
    /\ \A w \in DOMAIN workers :
         workers'[w].loaded # workers[w].loaded =>
           \A k \in RecordsOf(workers[w].id) : uploads'[k].status = "uploading"

C15_ProgressMonotone == [][C15_StepOk]_vars

\* a progress event at 5 of 8 bytes, after an earlier one: the record shows
\* 63 percent (62.5 rounded) and is still uploading
C15_Witness ==
  /\ lastOp.op = "onprogress"
  /\ \E w \in DOMAIN workers :
       /\ workers[w].loaded = 5
       /\ \E k \in RecordsOf(workers[w].id) :
            uploads[k].progress = 63 /\ uploads[k].status = "uploading"

\* C16: the number of list refreshes (GET /photos) triggered so far equals
\* the number of uploads that ended in done; an upload that ended in skipped
\* (409) or in error triggered none, and each refresh is triggered in the
\* onload step that ends an upload in done.
C16_StepOk ==
  /\ refreshCalls' = Cardinality({w \in DOMAIN workers' : workers'[w].final = "done"})
  /\ refreshCalls' \in {refreshCalls, refreshCalls + 1}
  /\ refreshCalls' = refreshCalls + 1 <=>
       \E w \in DOMAIN workers : workers[w].final = "none" /\ workers'[w].final = "done"

C16_RefreshOncePerDone == [][C16_StepOk]_vars

\* a drained batch of three uploads: two ended done, one was skipped by a 409,
\* and two refreshes were triggered
C16_Witness ==
  /\ refreshCalls = 2
  /\ \E b \in DOMAIN batches :
       /\ batches[b].done = 3
       /\ \E w \in WorkersOf(b) : workers[w].final = "skipped"

\* ------------------------------------------------------- overlapping batches

\* uploadFiles, called again while earlier batches may still be running
\* (handleDrop and handleInputChange call it whatever the panel shows)
SubmitMore(files) ==
  /\ Len(batches) < MaxBatches
  /\ Len(files) <= MaxBatchFiles
  /\ SubmitBody(files)

\* the file names of overlapping batches
MultiNames == {"a.jpg", "b.jpg"}

NextMulti ==
  \/ \E files \in SeqsOf(MultiNames, 1, MaxBatchFiles) : SubmitMore(files)
  \/ \E w \in DOMAIN workers, loaded \in 0..MaxBytes, lc \in BOOLEAN : Progress(w, loaded, lc)
  \/ \E w \in DOMAIN workers : UploadLoad(w)
  \/ \E w \in DOMAIN workers : XhrError(w)
  \/ \E w \in DOMAIN workers, status \in Statuses : XhrLoad(w, status)
  \/ Finally
  \/ TimerFire

\* the program as built (K = UPLOAD_CONCURRENCY), nothing uploaded yet
InitMulti ==
  /\ K = UPLOAD_CONCURRENCY
  /\ photos \in {ps \in KnownLists : Len(ps) <= 1 /\ ExistingNames(ps) \subseteq {"a.jpg"}}
  /\ uploads = <<>>
  /\ batches = <<>>
  /\ workers = <<>>
  /\ microQ = <<>>
  /\ timers = <<>>
  /\ nextId = 1
  /\ refreshCalls = 0
  /\ lastOp = [op |-> "init"]
  /\ OrdInit
  /\ ExtInit

SpecMulti == InitMulti /\ [][NextMulti]_vars

\* the batches that created the record with this id: by uploadOne, or as the
\* record of a client-detected duplicate
BatchesOf(id) ==
  {workers[w].batch : w \in {v \in DOMAIN workers : workers[v].id = id}}
    \cup {b \in DOMAIN batches : \E k \in DOMAIN batches[b].skips : batches[b].skips[k].id = id}

\* batch b has no queued and no in-flight file left
Drained(b) == batches[b].done = Len(batches[b].toUpload)

\* the ids of the records the panel shows
PanelIds(ups) == {ups[k].id : k \in DOMAIN ups}

\* C17, as claimed: a record that a step removes from the panel belongs to a
\* batch that has drained; no record of a batch with queued or in-flight
\* files is removed, also when the delayed clear of another batch fires.
C17_OriginalStep ==
  \A id \in PanelIds(uploads) \ PanelIds(uploads') :
    \A b \in BatchesOf(id) : Drained(b)

C17_Original == [][C17_OriginalStep]_vars

\* C18, as claimed: at most K requests are in flight across the whole panel,
\* also while two batches run.
C18_Original ==
  Cardinality({w \in DOMAIN workers : workers[w].xhr # "done"}) <= K

\* --------------------------------------- the PATCH requests and their outcome

\* a drag gesture of a run of at most MaxCommits gestures, started while at
\* most MaxPending requests of the earlier gestures are unanswered
DragStartPersist(id) ==
  /\ drags < MaxCommits
  /\ Cardinality(pending) <= MaxPending
  /\ DragStartBody(id)
  /\ UNCHANGED pointer

\* the server processes PATCH /photos/{id} of request j and answers 2xx: the
\* row's sort_order becomes the value sent; the client ignores the response
PatchOk(j) ==
  /\ j \in pending
  /\ pending' = pending \ {j}
  /\ server' = [server EXCEPT ![patchLog[j].id] = patchLog[j].sort_order]
  /\ lastOp' = [op |-> "patchOk", request |-> j]
  /\ UNCHANGED <<photos, activeId, overId, patchLog, deleting, drags, deletes>>
  /\ UNCHANGED <<dragIdx, moves, persisted, failed>>
  /\ UNCHANGED uiVars
  /\ UNCHANGED upVars

\* line 135: request j fails (the fetch rejects and .catch(console.error)
\* logs it, or the server answers an error status, which nothing reads)
PatchFailReverts(j) ==
  /\ j \in pending
  /\ Cardinality(failed) < MaxFailures
  /\ pending' = pending \ {j}
  /\ failed' = failed \cup {j}
  /\ photos' = [k \in DOMAIN photos |->
                  IF photos[k].id = patchLog[j].id
                  THEN [photos[k] EXCEPT !.sort_order = server[photos[k].id]]
                  ELSE photos[k]]
  /\ lastOp' = [op |-> "patchFail", request |-> j]
  /\ UNCHANGED <<activeId, overId, patchLog, deleting, drags, deletes>>
  /\ UNCHANGED <<dragIdx, moves, persisted, server>>
  /\ UNCHANGED uiVars
  /\ UNCHANGED upVars
PatchFail(j) ==
  /\ j \in pending
  /\ Cardinality(failed) < MaxFailures
  /\ pending' = pending \ {j}
  /\ failed' = failed \cup {j}
  /\ lastOp' = [op |-> "patchFail", request |-> j]
  /\ UNCHANGED <<photos, activeId, overId, patchLog, deleting, drags, deletes>>
  /\ UNCHANGED <<dragIdx, moves, persisted, server>>
  /\ UNCHANGED uiVars
  /\ UNCHANGED upVars

InitPersist ==
  /\ UpIdle
  /\ \E n \in 2..MaxPersistPhotos : photos = LoadedList(n)
  /\ lastOp = [op |-> "init"]
  /\ OrdInit
  /\ ExtInit

NextPersist ==
  \/ \E id \in 1..MaxPersistPhotos : DragStartPersist(id)
  \/ \E target \in 0..MaxPersistPhotos : DragOver(target)
  \/ DragEnd
  \/ DragCancel
  \/ \E j \in pending : PatchOk(j)
  \/ \E j \in pending : PatchFail(j)

SpecPersist == InitPersist /\ [][NextPersist]_vars

\* the indices in the log of the requests a step issues
NewRequests == (Len(patchLog) + 1)..Len(patchLog')

\* the step is the arrival of the outcome of a PATCH request
IsOutcomeStep == lastOp'.op \in {"patchOk", "patchFail"}

\* C19: the step that commits an order issues the patch requests and in the
\* same step leaves every photo with an in-memory sort_order equal to its
\* index, while all requests it issued are still unanswered; the outcome of a
\* request, success or failure, changes no photo and issues no request (no
\* retry); requests are issued by commits only, and a later commit sends a
\* photo with a failed request a new request only if its index differs from
\* its in-memory sort_order.
C19_StepOk ==
  /\ IsCommitStep =>
       /\ \A k \in DOMAIN photos' : photos'[k].sort_order = k - 1
       /\ NewRequests \subseteq pending'
       /\ \A j \in failed : \A k \in DOMAIN photos' :
            (photos'[k].id = patchLog[j].id /\ SortOrderOf(patchLog[j].id) = k - 1)
              => \A i \in NewRequests : patchLog'[i].id # patchLog[j].id
  /\ IsOutcomeStep =>
       /\ photos' = photos
       /\ patchLog' = patchLog
       /\ pending' \subseteq pending /\ pending' # pending
  /\ patchLog' # patchLog => IsCommitStep

C19_OptimisticNoRetry == [][C19_StepOk]_vars

\* the last request for a photo has failed and every request is answered: the
\* photo keeps the sort_order the commit gave it, the server row still has
\* another one, and no request for the photo followed
C19_Witness ==
  /\ lastOp.op = "patchFail"
  /\ pending = {}
  /\ \E j \in failed : \E k \in DOMAIN photos :
       /\ photos[k].id = patchLog[j].id
       /\ photos[k].sort_order = patchLog[j].sort_order
       /\ photos[k].sort_order = k - 1
       /\ server[photos[k].id] # k - 1
       /\ \A i \in DOMAIN patchLog : i > j => patchLog[i].id # patchLog[j].id

\* every PATCH request issued so far was processed successfully by the server
Converged == pending = {} /\ failed = {}

\* C20, as claimed: once every request of the commits made so far was
\* processed successfully, in whatever order, the server-side sort_order
\* values are a permutation of 0..N-1 and each photo's server-side sort_order
\* equals its index in the client's list.
C20_Original ==
  Converged =>
    /\ {server[photos[k].id] : k \in DOMAIN photos} = 0..(Len(photos) - 1)
    /\ \A k \in DOMAIN photos : server[photos[k].id] = k - 1

\* ================================================================ title edits

\* what a title input can hold
TitleValues == {"", " ", "x", " x", "y"}

\* String.prototype.trim on the values of TitleValues
Trim(v) == IF v = " " THEN "" ELSE IF v = " x" THEN "x" ELSE v

\* v ?? ""
OrEmpty(v) == IF v = null THEN "" ELSE v

\* SortablePhotos.jsx line 42: item._title ?? item.title ?? ""
DisplayTitle(p) == IF p.draft # null THEN p.draft ELSE OrEmpty(p.title)

\* the photo with this id
PhotoOf(ps, id) == ps[findIndex(ps, id) + 1]

\* line 253: prev.map(x => x.id === id ? { ...x, _title: value } : x)
SetDraft(ps, id, value) ==
  [k \in DOMAIN ps |-> IF ps[k].id = id THEN [ps[k] EXCEPT !.draft = value] ELSE ps[k]]

\* line 258: nextTitle === (p.title ?? "") returns without a request
TitleDiffersAlways(nextTitle, p) == TRUE
TitleDiffers(nextTitle, p) == nextTitle # OrEmpty(p.title)

\* lines 252-268: onSaveTitle(id, value, commit), called for a rendered card
onSaveTitle(id, value, commit, how) ==
  /\ edits < MaxEdits
  /\ id \in Ids(photos)
  /\ photos' = SetDraft(photos, id, value)
  /\ LET p == PhotoOf(photos, id)
         nextTitle == Trim(OrEmpty(value))
         sends == commit /\ TitleDiffers(nextTitle, p)
     IN /\ IF sends
           THEN /\ titleLog' = Append(titleLog, [id |-> id, title |-> nextTitle])
                /\ titlePending' = titlePending \cup {Len(titleLog) + 1}
           ELSE UNCHANGED <<titleLog, titlePending>>
        /\ lastOp' = [op |-> how, id |-> id, value |-> value, sent |-> sends]
  /\ edits' = edits + 1
  /\ UNCHANGED <<alerts, gets, serverTitle>>
  /\ UNCHANGED upVars
  /\ UNCHANGED ordVars
  /\ UNCHANGED extVars

\* SortablePhotos.jsx line 43: onChange of the title input, a keystroke
TitleInput(id, value) ==
  /\ onSaveTitle(id, value, FALSE, "titleInput")
  /\ UNCHANGED pointer

\* SortablePhotos.jsx line 44: Enter in the title input, which shows DisplayTitle
TitleEnter(id) ==
  /\ id \in Ids(photos)
  /\ onSaveTitle(id, DisplayTitle(PhotoOf(photos, id)), TRUE, "titleEnter")
  /\ UNCHANGED pointer

\* SortablePhotos.jsx line 50: onClick of the Save button
saveClick(id) ==
  /\ id \in Ids(photos)
  /\ onSaveTitle(id, DisplayTitle(PhotoOf(photos, id)), TRUE, "saveClick")

\* a click on the Save button of a card
SaveClick(id) ==
  /\ saveClick(id)
  /\ UNCHANGED pointer

\* the updated Photo the server answers request j with: the row with the
\* title sent, no draft, and the server's sort_order
UpdatedPhoto(x, j) ==
  [x EXCEPT !.title = titleLog[j].title, !.draft = null, !.sort_order = server[x.id]]

\* line 265: prev.map(x => x.id === id ? updated : x) for the response of request j
ReplaceUpdatedEvery(ps, j) == [k \in DOMAIN ps |-> UpdatedPhoto(ps[k], j)]
ReplaceUpdated(ps, j) ==
  [k \in DOMAIN ps |-> IF ps[k].id = titleLog[j].id THEN UpdatedPhoto(ps[k], j) ELSE ps[k]]

\* the title draft the card of this photo holds, null for none and for no card
DraftOf(ps, id) == IF id \in Ids(ps) THEN PhotoOf(ps, id).draft ELSE null

\* lines 264-265: the response of request j is ok
TitleOk(j) ==
  /\ j \in titlePending
  /\ titlePending' = titlePending \ {j}
  /\ photos' = ReplaceUpdated(photos, j)
  /\ lastOp' = [op |-> "titleOk", request |-> j, draft |-> DraftOf(photos, titleLog[j].id)]
  /\ serverTitle' = [serverTitle EXCEPT ![titleLog[j].id] = titleLog[j].title]
  /\ UNCHANGED <<titleLog, alerts, edits, pointer, gets>>
  /\ UNCHANGED upVars
  /\ UNCHANGED ordVars
  /\ UNCHANGED extVars

\* line 264: new Error(`Update failed: ${r.status}`) for a response that is
\* not ok; status 0 stands for a fetch that rejects (no response)
FailMessage(status) ==
  IF status = 0 THEN "Failed to fetch" ELSE "Update failed: " \o ToString(status)

\* line 266: .catch(err => alert(err.message))
ShowAlertNot(shown, message) == shown
ShowAlert(shown, message) == Append(shown, message)

\* lines 264-266: request j fails: the fetch rejects or the response is not ok
TitleFail(j, status) ==
  /\ j \in titlePending
  /\ titlePending' = titlePending \ {j}
  /\ alerts' = ShowAlert(alerts, FailMessage(status))
  /\ lastOp' = [op |-> "titleFail", request |-> j]
  /\ UNCHANGED <<photos, titleLog, edits, pointer, gets, serverTitle>>
  /\ UNCHANGED upVars
  /\ UNCHANGED ordVars
  /\ UNCHANGED extVars

InitEdit ==
  /\ UpIdle
  /\ \E n \in 1..MaxEditPhotos : photos = LoadedList(n)
  /\ lastOp = [op |-> "init"]
  /\ OrdInit
  /\ ExtInit

NextEdit ==
  \/ \E id \in 1..MaxEditPhotos, value \in TitleValues : TitleInput(id, value)
  \/ \E id \in 1..MaxEditPhotos : TitleEnter(id)
  \/ \E id \in 1..MaxEditPhotos : SaveClick(id)
  \/ \E j \in titlePending : TitleOk(j)
  \/ \E j \in titlePending, status \in {0, 500} : TitleFail(j, status)

SpecEdit == InitEdit /\ [][NextEdit]_vars

\* ------------------------------------- title edits and reorders that can fail

\* a keystroke, Enter or Save of a run of at most MaxFailEdits of them
InputSoon(id, value) == edits < MaxFailEdits /\ TitleInput(id, value)
EnterSoon(id) == edits < MaxFailEdits /\ TitleEnter(id)
SaveSoon(id) == edits < MaxFailEdits /\ SaveClick(id)

\* a drag gesture that starts when the requests of the earlier ones are answered
DragSoon(id) == pending = {} /\ DragStart(id)

InitFail ==
  /\ UpIdle
  /\ \E n \in 2..MaxFailPhotos : photos = LoadedList(n)
  /\ lastOp = [op |-> "init"]
  /\ OrdInit
  /\ ExtInit

NextFail ==
  \/ \E id \in 1..MaxFailPhotos : InputSoon(id, "x")
  \/ \E id \in 1..MaxFailPhotos : EnterSoon(id)
  \/ \E id \in 1..MaxFailPhotos : SaveSoon(id)
  \/ \E j \in titlePending : TitleOk(j)
  \/ \E j \in titlePending, status \in {0, 500} : TitleFail(j, status)
  \/ \E id \in 1..MaxFailPhotos : DragSoon(id)
  \/ \E target \in 0..MaxFailPhotos : DragOver(target)
  \/ DragEnd
  \/ DragCancel
  \/ \E j \in pending : PatchOk(j)
  \/ \E j \in pending : PatchFail(j)

SpecFail == InitFail /\ [][NextFail]_vars

\* ------------------------------------------------ properties of the title edits

\* the step is an explicit commit of a title: Enter or the Save button
IsTitleCommit == lastOp'.op \in {"titleEnter", "saveClick"}

\* C21: a title PATCH request is issued only by Enter or the Save button, one
\* request per commit, carrying the trimmed value of the input, and only if
\* that value differs from the title the photo last got from the server; a
\* keystroke issues none, and a commit of a value equal to that title issues
\* none.
C21_StepOk ==
  /\ Len(titleLog') \in {Len(titleLog), Len(titleLog) + 1}
  /\ SubSeq(titleLog', 1, Len(titleLog)) = titleLog
  /\ titleLog' # titleLog =>
       /\ IsTitleCommit
       /\ LET r == titleLog'[Len(titleLog')]
              p == PhotoOf(photos, r.id)
          IN /\ r.id = lastOp'.id
             /\ r.title = Trim(DisplayTitle(p))
             /\ r.title # OrEmpty(p.title)
  /\ lastOp'.op = "titleInput" => titleLog' = titleLog
  /\ (IsTitleCommit /\ Trim(lastOp'.value) = OrEmpty(PhotoOf(photos, lastOp'.id).title))
       => titleLog' = titleLog

C21_TitlePatchOnlyOnChange == [][C21_StepOk]_vars

\* a keystroke, a commit that sent the one request, its answer, and a second
\* commit of the now unchanged value that sent nothing
C21_Witness ==
  /\ lastOp.op = "saveClick" /\ ~lastOp.sent
  /\ Len(titleLog) = 1
  /\ titlePending = {}
  /\ alerts = <<>>
  /\ edits = 3
  /\ PhotoOf(photos, lastOp.id).title = "x"

\* ------------------------------------------- properties of failing requests

\* the step is the failure of a title patch / of a position patch
IsTitleFailure == lastOp'.op = "titleFail"
IsPatchFailure == lastOp'.op = "patchFail"

\* C22, as claimed: the failure of a title patch or of a position patch shows
\* nothing to the user and leaves the local state as it was.
C22_OriginalStep ==
  (IsTitleFailure \/ IsPatchFailure) => (alerts' = alerts /\ photos' = photos)

C22_Original == [][C22_OriginalStep]_vars

\* C22, amended: neither failure changes the local state (drafts, titles,
\* order and sort_order stay, nothing is rolled back and no request is sent);
\* the failure of a position patch shows nothing, the failure of a title
\* patch shows one alert with the error's message.
C22_AmendedStep ==
  /\ (IsTitleFailure \/ IsPatchFailure) =>
       /\ photos' = photos
       /\ patchLog' = patchLog /\ titleLog' = titleLog
  /\ IsPatchFailure => alerts' = alerts
  /\ IsTitleFailure =>
       /\ Len(alerts') = Len(alerts) + 1
       /\ SubSeq(alerts', 1, Len(alerts)) = alerts
       /\ alerts'[Len(alerts')] \in {FailMessage(0), FailMessage(500)}

C22_FailureKeepsLocalState == [][C22_AmendedStep]_vars

\* a position patch and a title patch have both failed: the list keeps the
\* moved order with sort_order equal to the index, the draft is still shown,
\* and the one alert is that of the title patch
C22_Witness ==
  /\ failed # {}
  /\ pending = {} /\ titlePending = {}
  /\ alerts = <<FailMessage(500)>>
  /\ \E k \in DOMAIN photos : photos[k].id # k
  /\ \A k \in DOMAIN photos : photos[k].sort_order = k - 1
  /\ \E k \in DOMAIN photos :
       /\ photos[k].draft = "x" /\ photos[k].title = ""
       /\ server[photos[k].id] # k - 1

\* ------------------------------------------- further properties of the reorder

\* the step is a drop: handleDragEnd of an active drag
IsDrop == activeId # NoId /\ lastOp'.op = "dragEnd"

\* no two requests of the step are for the same photo
OneRequestEach ==
  \A i, j \in DOMAIN NewPatches : NewPatches[i].id = NewPatches[j].id => i = j

\* C23: a drop on a target that differs from the source, both being cards of
\* the list, moves the source to the target's index once, every other photo
\* keeping its relative order, and commits the resulting order once in the
\* same step (at most one request per photo); any other drop (no target, the
\* target equal to the source, or one of them no longer in the list) leaves
\* the sequence unchanged and issues no commit and no patch.
C23_StepOk ==
  IsDrop =>
    LET src == findIndex(photos, activeId)
        tgt == findIndex(photos, overId)
    IN IF overId # NoId /\ overId # activeId /\ src # -1 /\ tgt # -1
       THEN /\ lastOp'.moved
            /\ Len(photos') = Len(photos)
            /\ photos'[tgt + 1].id = activeId
            /\ RemoveAt(IdSeq(photos'), tgt) = RemoveAt(IdSeq(photos), src)
            /\ persisted' = IdSeq(photos')
            /\ \A k \in DOMAIN photos' : photos'[k].sort_order = k - 1
            /\ OneRequestEach
            /\ NewPatches # <<>>
       ELSE /\ ~lastOp'.moved
            /\ photos' = photos
            /\ patchLog' = patchLog
            /\ persisted' = persisted

C23_DropMovesOnceAndCommits == [][C23_StepOk]_vars

\* a drop two or more slots away from the source moved the list and sent
\* one request for each photo in between
C23_Witness ==
  /\ lastOp.op = "dragEnd" /\ lastOp.moved
  /\ lastOp.newIndex - lastOp.oldIndex >= 2
  /\ Len(patchLog) = lastOp.newIndex - lastOp.oldIndex + 1
  /\ photos[lastOp.newIndex + 1].id = lastOp.active

\* the step belongs to a gesture that has not been dropped: its start, a
\* change of the drop target, or its cancellation
IsGestureStep == lastOp'.op \in {"dragStart", "dragOver", "dragCancel"}

\* C24: cancelling a drag ends the gesture (no drag is active afterwards) and,
\* like every step of the gesture before it, leaves the photo sequence and
\* every sort_order as they are and issues no commit and no patch request,
\* so the list after the cancellation is the pre-drag list.
C24_StepOk ==
  /\ IsGestureStep =>
       /\ photos' = photos
       /\ patchLog' = patchLog
       /\ persisted' = persisted /\ pending' = pending
  /\ lastOp'.op = "dragCancel" => (activeId # NoId /\ activeId' = NoId /\ overId' = NoId)

C24_CancelRestores == [][C24_StepOk]_vars

\* a drag was cancelled while over another card: the loaded list is as it
\* was and nothing was sent
C24_Witness ==
  /\ lastOp.op = "dragCancel"
  /\ lastOp.over # NoId /\ lastOp.over # lastOp.active
  /\ lastOp.over \in Ids(photos) /\ lastOp.active \in Ids(photos)
  /\ photos = LoadedList(Len(photos))
  /\ patchLog = <<>>
  /\ activeId = NoId

\* ============================================ pointer sensor of the photo cards
\* (a press on a card's control, movements of the pressed pointer, the release)

\* SortablePhotos.jsx line 79: activationConstraint: { distance: 6 }
ActivationDistance == 6

\* the distances from the press a movement is given: none, short of the
\* activation distance, exactly that distance, and past it
Distances == {0, ActivationDistance - 1, ActivationDistance, ActivationDistance + 1}

\* the Save clicks of a run
MaxPointerEdits == 1

\* SortablePhotos.jsx lines 22-30, 50, 52: the controls of a card that take a press
Controls == {"handle", "save", "delete"}

\* SortablePhotos.jsx lines 22-30: only the drag handle carries {...listeners}
HasListenersAll(control) == TRUE
HasListeners(control) == control = "handle"

\* SortablePhotos.jsx line 79: the sensor activates once the pointer is farther
\* from the press than the distance of the activation constraint
hasExceededDistanceAlways(d) == d >= 0
hasExceededDistance(d) == d > ActivationDistance

\* pointerdown on a control of card id
PointerDown(id, control) ==
  /\ ~pointer.down
  /\ id \in Ids(photos)
  /\ pointer' = [down |-> TRUE, on |-> control, id |-> id, dist |-> 0, far |-> 0,
                 armed |-> HasListeners(control)]
  /\ lastOp' = [op |-> "pointerDown"]
  /\ UNCHANGED <<photos, activeId, overId, patchLog, deleting, drags, deletes>>
  /\ UNCHANGED upVars
  /\ UNCHANGED extVars
  /\ UNCHANGED titleVars

\* pointermove to distance d from the press: the armed sensor activates when
\* the distance is exceeded (line 98: onDragStart), once per press
PointerMove(d) ==
  /\ pointer.down
  /\ d # pointer.dist
  /\ LET far == IF d > pointer.far THEN d ELSE pointer.far
     IN IF pointer.armed /\ hasExceededDistance(d) /\ pointer.id \in Ids(photos)
        THEN /\ drags < MaxDrags
             /\ DragStartBody(pointer.id)
             /\ pointer' = [pointer EXCEPT !.dist = d, !.far = far, !.armed = FALSE]
        ELSE /\ pointer' = [pointer EXCEPT !.dist = d, !.far = far]
             /\ lastOp' = [op |-> "pointerMove"]
             /\ UNCHANGED <<photos, activeId, overId, patchLog, deleting, drags, deletes>>
             /\ UNCHANGED upVars
             /\ UNCHANGED extVars
             /\ UNCHANGED titleVars

\* pointerup of an active drag: line 99, onDragEnd
ReleaseDrop ==
  /\ pointer.down
  /\ handleDragEnd
  /\ pointer' = [pointer EXCEPT !.down = FALSE, !.armed = FALSE]

\* pointerup on the Save button with no drag active: its click
ReleaseSave ==
  /\ pointer.down
  /\ activeId = NoId
  /\ pointer.on = "save"
  /\ edits < MaxPointerEdits
  /\ saveClick(pointer.id)
  /\ pointer' = [pointer EXCEPT !.down = FALSE, !.armed = FALSE]

\* pointerup on the Delete button with no drag active: its click
ReleaseDelete(confirmed) ==
  /\ pointer.down
  /\ activeId = NoId
  /\ pointer.on = "delete"
  /\ deletePhoto(pointer.id, confirmed)
  /\ pointer' = [pointer EXCEPT !.down = FALSE, !.armed = FALSE]

\* pointerup with no drag active on the handle, which has no onClick, or on a
\* card that is gone
ReleaseIdle ==
  /\ pointer.down
  /\ activeId = NoId
  /\ pointer.on = "handle" \/ pointer.id \notin Ids(photos)
  /\ pointer' = [pointer EXCEPT !.down = FALSE, !.armed = FALSE]
  /\ lastOp' = [op |-> "pointerUp"]
  /\ UNCHANGED <<photos, activeId, overId, patchLog, deleting, drags, deletes>>
  /\ UNCHANGED upVars
  /\ UNCHANGED extVars
  /\ UNCHANGED titleVars

MaxPointerPhotos == 2

InitPointer ==
  /\ UpIdle
  /\ \E n \in 2..MaxPointerPhotos : photos = LoadedList(n)
  /\ lastOp = [op |-> "init"]
  /\ OrdInit
  /\ ExtInit

NextPointer ==
  \/ \E id \in 1..MaxPointerPhotos, control \in Controls : PointerDown(id, control)
  \/ \E d \in Distances : PointerMove(d)
  \/ \E target \in 0..MaxPointerPhotos : DragOver(target)
  \/ ReleaseDrop
  \/ ReleaseSave
  \/ \E c \in BOOLEAN : ReleaseDelete(c)
  \/ ReleaseIdle
  \/ DragCancel
  \/ \E id \in deleting : DeleteResolved(id)

SpecPointer == InitPointer /\ [][NextPointer]_vars

\* the step starts a drag
IsActivation == activeId = NoId /\ activeId' # NoId

\* the step releases the pressed pointer
IsRelease == pointer.down /\ ~pointer'.down

\* the step leaves the order of the list and the position requests alone
OrderUntouched ==
  /\ IdSeq(photos') = IdSeq(photos)
  /\ \A k \in DOMAIN photos : photos'[k].sort_order = photos[k].sort_order
  /\ patchLog' = patchLog
  /\ pending' = pending

\* C25: a drag starts only from a press on the drag handle of the card
\* dragged, and only by a movement that takes the pointer farther than the
\* activation distance from the press; a press that is released without
\* having been that far, and a press on Save or Delete however far it moves,
\* moves no card and sends no position request
C25_StepOk ==
  /\ IsActivation =>
       /\ pointer.down
       /\ pointer.on = "handle"
       /\ activeId' = pointer.id
       /\ pointer'.dist > ActivationDistance
  /\ (IsRelease /\ pointer.far <= ActivationDistance) => OrderUntouched
  /\ (IsRelease /\ pointer.on \in {"save", "delete"}) => OrderUntouched
  /\ (activeId # NoId /\ ~IsRelease) => OrderUntouched \/ lastOp'.op = "deleteResolved"
C25_ActivationDistance == [][C25_StepOk]_vars

\* a press on the handle was moved exactly the activation distance and
\* released, and a Save button was clicked with a moving pointer: no drag yet
C25_Witness ==
  /\ ~pointer.down
  /\ pointer.on = "handle"
  /\ pointer.far = ActivationDistance
  /\ drags = 0
  /\ edits > 0
  /\ lastOp.op = "pointerUp"

\* ===================================== a batch longer than the concurrency cap

\* files of a batch that is one longer than UPLOAD_CONCURRENCY
MaxQueueFiles == 4

\* the files dropped, in list order
QueueFiles == <<"a.jpg", "b.jpg", "c.jpg", "d.jpg", "e.jpg">>

\* lines 150-160: handleDrop / handleInputChange with the first files of QueueFiles
SubmitQueue(n) == Submit(SubSeq(QueueFiles, 1, n))

\* line 10: UPLOAD_CONCURRENCY is the cap; the list is empty or holds a.jpg
InitQueue ==
  /\ K = UPLOAD_CONCURRENCY
  /\ photos \in {<<>>, <<MkPhoto(1, "a.jpg", 0)>>}
  /\ uploads = <<>>
  /\ batches = <<>>
  /\ workers = <<>>
  /\ microQ = <<>>
  /\ timers = <<>>
  /\ nextId = 1
  /\ refreshCalls = 0
  /\ lastOp = [op |-> "init"]
  /\ OrdInit
  /\ ExtInit

NextQueue ==
  \/ \E n \in 1..MaxQueueFiles : SubmitQueue(n)
  \/ \E w \in DOMAIN workers, loaded \in 0..MaxBytes, lc \in BOOLEAN : Progress(w, loaded, lc)
  \/ \E w \in DOMAIN workers : UploadLoad(w)
  \/ \E w \in DOMAIN workers : XhrError(w)
  \/ \E w \in DOMAIN workers, status \in Statuses : XhrLoad(w, status)
  \/ Finally
  \/ TimerFire

SpecQueue == InitQueue /\ [][NextQueue]_vars

\* the records of the panel right after the intake of the first batch
IntakeJustDone == lastOp.op = "uploadFiles" /\ Len(batches) = 1

\* C26: right after the intake of a batch of N files the panel holds N
\* records of that batch, a skipped one for every duplicate and an uploading
\* one for every file of toUpload, also for the files that wait behind the
\* concurrency cap
C26_Original ==
  IntakeJustDone =>
    /\ Len(uploads) = Len(batches[1].files)
    /\ CountStatus("skipped") = Len(batches[1].skips)
    /\ CountStatus("uploading") = Len(batches[1].toUpload)

\* ================================= uploads that the proxy can reject early

\* files of a batch where the proxy can reject a request
MaxRejectFiles == 2

\* nginx.conf line 4: client_max_body_size 30M, a larger body is answered 413
\* by nginx itself
EarlyStatuses == {413}

\* lines 114-125: xhr.onload of a response that nginx sent while the body was
\* still being transmitted: upload.onload has not run and does not run
XhrLoadEarly(w, status) ==
  /\ workers[w].xhr = "sending"
  /\ onload(w, status)

InitReject ==
  /\ K = UPLOAD_CONCURRENCY
  /\ photos \in KnownLists
  /\ uploads = <<>>
  /\ batches = <<>>
  /\ workers = <<>>
  /\ microQ = <<>>
  /\ timers = <<>>
  /\ nextId = 1
  /\ refreshCalls = 0
  /\ lastOp = [op |-> "init"]
  /\ OrdInit
  /\ ExtInit

NextReject ==
  \/ \E files \in SeqsOf(Names, 1, MaxRejectFiles) : Submit(files)
  \/ \E w \in DOMAIN workers, loaded \in 0..MaxBytes, lc \in BOOLEAN : Progress(w, loaded, lc)
  \/ \E w \in DOMAIN workers : UploadLoad(w)
  \/ \E w \in DOMAIN workers : XhrError(w)
  \/ \E w \in DOMAIN workers, status \in Statuses : XhrLoad(w, status)
  \/ \E w \in DOMAIN workers, status \in EarlyStatuses : XhrLoadEarly(w, status)
  \/ Finally
  \/ TimerFire

SpecReject == InitReject /\ [][NextReject]_vars

\* the position of a status on the path uploading, processing, terminal
Rank(status) ==
  IF status = "uploading" THEN 0 ELSE IF status = "processing" THEN 1 ELSE 2

\* the records the step keeps in the panel
KeptRecords == {k \in DOMAIN uploads : k \in DOMAIN uploads' /\ uploads'[k].id = uploads[k].id}

\* C27: while a record is in the panel its status never moves back along
\* uploading, processing, terminal; a record in processing has progress 100;
\* and a record becomes done only from processing with progress 100
C27_StepOk ==
  \A k \in KeptRecords :
    /\ Rank(uploads'[k].status) >= Rank(uploads[k].status)
    /\ uploads'[k].status = "processing" => uploads'[k].progress = 100
    /\ (uploads'[k].status = "done" /\ uploads[k].status # "done") =>
         /\ uploads[k].status = "processing"
         /\ uploads[k].progress = 100
         /\ uploads'[k].progress = 100
C27_StatusForwardOnly == [][C27_StepOk]_vars

\* a record went uploading, processing, done without a computable progress
\* event, and another went from uploading straight to error
C27_Witness ==
  /\ \E w \in DOMAIN workers :
       /\ workers[w].final = "done"
       /\ workers[w].loaded = MaxBytes
       /\ \E k \in RecordsOf(workers[w].id) : uploads[k].status = "done"
  /\ \E k \in DOMAIN uploads : uploads[k].status = "error" /\ uploads[k].progress < 100

\* the worker whose request the step ends
Ends(w) == workers[w].xhr # "done" /\ workers'[w].xhr = "done"

\* the step leaves the record of worker w in the panel, in error with message
ErrorShown(w, message) ==
  /\ \E k \in DOMAIN uploads' : uploads'[k].id = workers[w].id
  /\ \A k \in DOMAIN uploads' :
       uploads'[k].id = workers[w].id =>
         /\ uploads'[k].status = "error"
         /\ uploads'[k].error = message

\* the message of the statuses the server and the proxy answer with
StatusText(status) ==
  IF status = 500 THEN "HTTP 500" ELSE IF status = 413 THEN "HTTP 413" ELSE "none"

\* C28: a response with a status outside 200..299 other than 409 ends the
\* record in error with the message "HTTP <status>" of that status, a
\* transport failure ends it in error with "Network error", and neither
\* triggers a refresh
C28_StepOk ==
  \A w \in DOMAIN workers :
    Ends(w) =>
      /\ (lastOp'.op = "onload" /\ lastOp'.status \in {413, 500}) =>
           /\ ErrorShown(w, StatusText(lastOp'.status))
           /\ refreshCalls' = refreshCalls
      /\ lastOp'.op = "onerror" =>
           /\ ErrorShown(w, "Network error")
           /\ refreshCalls' = refreshCalls
C28_ErrorMessages == [][C28_StepOk]_vars

\* one request was answered 500 or 413, another failed in transport, and
\* nothing was refreshed
C28_Witness ==
  /\ \E k \in DOMAIN uploads : uploads[k].error \in {"HTTP 500", "HTTP 413"}
  /\ \E k \in DOMAIN uploads : uploads[k].error = "Network error"
  /\ \A w \in DOMAIN workers : workers[w].final = "error"
  /\ Len(workers) = 2
  /\ refreshCalls = 0

\* ------------------------------------------------ properties of the scheduler

\* C29: the workers of a batch were started for the files of toUpload in list
\* order, one worker per file, nextIndex of them and never more than total;
\* and whenever no completion reaction is waiting to run, inFlight equals
\* min(K, total - completed), the number of started workers not yet completed
C29_ListOrderWorkConserving ==
  \A b \in DOMAIN batches :
    LET B     == batches[b]
        total == Len(B.toUpload)
    IN /\ B.i <= total
       /\ Cardinality(WorkersOf(b)) = B.i
       /\ \A w \in WorkersOf(b) :
            /\ workers[w].idx \in 0..(B.i - 1)
            /\ workers[w].pos = B.toUpload[workers[w].idx + 1]
       /\ \A w1, w2 \in WorkersOf(b) : w1 < w2 => workers[w1].idx < workers[w2].idx
       /\ B.inFlight = Cardinality({w \in WorkersOf(b) : ~workers[w].fin})
       /\ microQ = <<>> => B.inFlight = Min(K, total - B.done)

\* with K = 2 and three files to upload, the first completion has started the
\* queued third file
C29_Witness ==
  /\ K = 2
  /\ microQ = <<>>
  /\ Len(batches) = 1
  /\ Len(batches[1].toUpload) = 3
  /\ batches[1].done = 1
  /\ batches[1].i = 3
  /\ batches[1].inFlight = 2
  /\ workers[3].pos = batches[1].toUpload[3]

\* C30: a batch whose files are all client-detected duplicates starts no
\* worker, issues no request and triggers no refresh; its promise is resolved
\* when uploadFiles returns; and uploadFiles has armed the one timer, of the
\* delay of a drained batch, whose callback empties the panel of its skipped
\* records
C30_AllDuplicates ==
  \A b \in DOMAIN batches :
    LET B == batches[b] IN
    Len(B.toUpload) = 0 =>
      /\ WorkersOf(b) = {}
      /\ B.i = 0 /\ B.inFlight = 0 /\ B.done = 0 /\ B.drains = 0
      /\ B.promise = "resolved"
      /\ refreshCalls = 0
      /\ ClearDelayEmpty = ClearDelayDrained
      /\ lastOp.op = "uploadFiles" =>
           /\ timers = <<b>>
           /\ Len(uploads) = Len(B.files)
           /\ \A k \in DOMAIN uploads : uploads[k].status = "skipped"
      /\ lastOp.op = "clear" => timers = <<>> /\ uploads = <<>>
      /\ lastOp.op \in {"uploadFiles", "clear"}

\* a batch of two duplicates was dropped and its timer has emptied the panel
C30_Witness ==
  /\ Len(batches) = 1
  /\ Len(batches[1].files) >= 2
  /\ batches[1].toUpload = <<>>
  /\ lastOp.op = "clear"
  /\ uploads = <<>>

\* ===================================== uploads whose requests all get an outcome

\* files of a batch whose completion is followed
MaxLiveFiles == 2

\* a started request moves on: its body is sent, or it ends with a response
\* or a transport failure
Outcome ==
  \E w \in DOMAIN workers :
    \/ UploadLoad(w)
    \/ XhrError(w)
    \/ \E status \in Statuses : XhrLoad(w, status)

NextLive ==
  \/ \E files \in SeqsOf(Names, 1, MaxLiveFiles) : Submit(files)
  \/ \E w \in DOMAIN workers, loaded \in 0..MaxBytes, lc \in BOOLEAN : Progress(w, loaded, lc)
  \/ \E w \in DOMAIN workers : UploadLoad(w)
  \/ \E w \in DOMAIN workers : XhrError(w)
  \/ \E w \in DOMAIN workers, status \in Statuses : XhrLoad(w, status)
  \/ Finally
  \/ TimerFire

\* the event loop runs the completion reactions and the due timers, and every
\* request gets its outcome
SpecLive ==
  /\ Init
  /\ [][NextLive]_vars
  /\ WF_vars(Outcome)
  /\ WF_vars(Finally)
  /\ WF_vars(TimerFire)

\* the batch has completed all its files, resolved its promise, and its timer
\* has emptied the panel
DrainedAndCleared ==
  /\ Len(batches) = 1
  /\ batches[1].i = Len(batches[1].toUpload)
  /\ batches[1].done = Len(batches[1].toUpload)
  /\ batches[1].inFlight = 0
  /\ batches[1].promise = "resolved"
  /\ \A w \in DOMAIN workers : workers[w].fin
  /\ timers = <<>>
  /\ uploads = <<>>

\* C31: when every started request gets an outcome and the event loop runs,
\* a batch leads to the state where every file of toUpload was started and
\* completed (completed = total), the promise is resolved and the panel has
\* been cleared
C31_BatchCompletes == (Len(batches) = 1) ~> DrainedAndCleared

\* with K = 1 a batch of two uploads, the second queued behind the first, has
\* completed and the panel is cleared
C31_Witness ==
  /\ DrainedAndCleared
  /\ K = 1
  /\ Len(batches[1].toUpload) = 2
  /\ workers[2].final = "done"

\* ------------------------------------------------ frame of the worker callbacks

\* the step is a callback of an upload worker
IsWorkerCallback == lastOp'.op \in {"onprogress", "upload.onload", "onload", "onerror"}

\* the records of the panel that the step changes
ChangedRecords == {k \in DOMAIN uploads : k \notin DOMAIN uploads' \/ uploads'[k] # uploads[k]}

\* C32: a callback of an upload worker (progress, body sent, response of any
\* status, transport failure) keeps the number, the order, the ids and the
\* names of the records and changes at most one record, the one of the
\* in-flight worker the callback belongs to; every other record is unchanged
C32_StepOk ==
  IsWorkerCallback =>
    /\ Len(uploads') = Len(uploads)
    /\ \A k \in DOMAIN uploads :
         /\ uploads'[k].id = uploads[k].id
         /\ uploads'[k].name = uploads[k].name
    /\ Cardinality(ChangedRecords) <= 1
    /\ \A k \in ChangedRecords :
         \E w \in DOMAIN workers :
           /\ workers[w].id = uploads[k].id
           /\ workers[w].xhr # "done"
           /\ \A v \in DOMAIN workers \ {w} : workers'[v] = workers[v]
C32_CallbackChangesOwnRecord == [][C32_StepOk]_vars

\* two workers are in the panel, one answered and one failed in transport
\* while the other's record was in another status
C32_Witness ==
  /\ Len(uploads) >= 2
  /\ lastOp.op = "onerror"
  /\ \E k1, k2 \in DOMAIN uploads :
       /\ uploads[k1].status = "error"
       /\ uploads[k1].error = "Network error"
       /\ uploads[k2].status = "processing"
       /\ uploads[k2].progress = 100

\* ================== earlier Management: the list changes during a native drag

\* every element of the list is a photo, so the list can be rendered
\* (photos.map(p => ... p.id ...) throws for an undefined element)
Rendered == \A k \in DOMAIN photos : photos[k] # undefined

\* the handlers run while the component is rendered
NextStale ==
  \/ Rendered /\ \E idx \in 0..MaxLegacyPhotos : DragStartItem(idx)
  \/ Rendered /\ \E idx \in 0..MaxLegacyPhotos : DragOverItem(idx)
  \/ Rendered /\ DragEndItem
  \/ Rendered /\ \E id \in 1..(MaxLegacyPhotos + 1) : DeletePhoto(id, TRUE)
  \/ Rendered /\ \E id \in deleting : DeleteResolved(id)

SpecStale == InitLegacy /\ [][NextStale]_vars

\* the step is a move of the list: the drop of SortablePhotos or a live move
\* of the earlier Management
IsMove ==
  \/ lastOp'.op = "dragOverItem"
  \/ lastOp'.op = "dragEnd" /\ lastOp'.moved

\* the ids of seq without id, in order
Without(seq, id) == SelectSeq(seq, LAMBDA x : x # id)

\* C33: every move keeps the photo sequence a permutation of the same
\* photos: same length, same set of ids, no id twice, and the photos other
\* than the moved one keep their relative order
C33_Original ==
  [][IsMove =>
       /\ Len(photos') = Len(photos)
       /\ Ids(photos') = Ids(photos)
       /\ \A j, k \in DOMAIN photos' : j # k => photos'[j].id # photos'[k].id
       /\ \E m \in Ids(photos) :
            Without(IdSeq(photos'), m) = Without(IdSeq(photos), m)]_vars

\* C34: the counters of a batch satisfy nextIndex = inFlight + completed and
\* 0 <= completed <= nextIndex <= total in every state
C34_CounterBalance ==
  \A b \in DOMAIN batches :
    /\ batches[b].i = batches[b].inFlight + batches[b].done
    /\ 0 <= batches[b].done
    /\ batches[b].done <= batches[b].i
    /\ batches[b].i <= Len(batches[b].toUpload)

\* one file is completed, one is in flight and one is still queued
C34_Witness ==
  \E b \in DOMAIN batches :
    /\ batches[b].done = 1
    /\ batches[b].inFlight = 1
    /\ batches[b].i = 2
    /\ Len(batches[b].toUpload) = 3

\* C35: a record of the panel has an error message exactly if its status is
\* error; uploading, processing, done and skipped records have error = null
C35_ErrorIffStatusError ==
  \A k \in DOMAIN uploads :
    /\ uploads[k].status \in {"uploading", "processing", "done", "skipped", "error"}
    /\ (uploads[k].error # null) <=> (uploads[k].status = "error")

\* the panel holds a failed, a server-skipped and a done record
C35_Witness ==
  /\ \E k \in DOMAIN uploads : uploads[k].status = "error" /\ uploads[k].error = "Network error"
  /\ \E k \in DOMAIN uploads : uploads[k].status = "done" /\ uploads[k].error = null
  /\ \E w \in DOMAIN workers :
       /\ workers[w].status = 409
       /\ \E k \in RecordsOf(workers[w].id) : uploads[k].error = null

\* C36: once an order has been committed, and whatever became of the
\* requests of that commit, every photo's in-memory sort_order equals its
\* index, so that committing the order the list is in sends no request and
\* changes nothing
C36_CommitIdempotent ==
  (Len(patchLog) > 0 /\ persisted = IdSeq(photos)) =>
    /\ \A k \in DOMAIN photos : photos[k].sort_order = k - 1
    /\ persistOrder(photos, patchLog) = [order |-> photos, log |-> patchLog]

\* a commit changed the order, one of its requests failed and none is pending
C36_Witness ==
  /\ Len(patchLog) >= 2
  /\ persisted = IdSeq(photos)
  /\ IdSeq(photos) = <<2, 1>>
  /\ failed # {}
  /\ pending = {}

\* ======================================================= refresh of the list
\* (an upload succeeds, refresh() fetches GET /photos, the response replaces
\* the list, while the list is reordered and titles are edited)

\* keystrokes and Save clicks of one run
MaxRefreshEdits == 2

\* a keystroke or a Save click of a run of at most MaxRefreshEdits of them
InputOnce(id, value) == edits < MaxRefreshEdits /\ TitleInput(id, value)
SaveOnce(id) == edits < MaxRefreshEdits /\ SaveClick(id)

\* the id the server gives the photo of an upload: past the ids of the list
IdBase == 10
UploadedId(w) == IdBase + workers[w].id

\* the file name of the server's row id
ServerName(id) ==
  IF id > IdBase
  THEN (CHOOSE w \in DOMAIN workers : UploadedId(w) = id)
  ELSE 0

\* the Photo the server holds for id
ServerPhoto(id) ==
  [id |-> id,
   name |-> IF id > IdBase THEN workers[ServerName(id)].name ELSE PhotoNames[id],
   title |-> serverTitle[id], draft |-> null, sort_order |-> server[id]]

\* GET /photos: the server's photos by sort_order, equal ones by id
ServerList ==
  LET S == DOMAIN server
      key(id) == server[id] * (2 * IdBase) + id
      f == CHOOSE g \in [1..Cardinality(S) -> S] :
             /\ \A i, j \in 1..Cardinality(S) : i < j => key(g[i]) < key(g[j])
  IN [k \in 1..Cardinality(S) |-> ServerPhoto(f[k])]

\* POST /photos of worker w is processed: the server stores the photo, at
\* the end of the order and without a title
ServerStores(w) ==
  /\ workers[w].xhr = "sent"
  /\ UploadedId(w) \notin DOMAIN server
  /\ server' = [id \in DOMAIN server \cup {UploadedId(w)} |->
                  IF id \in DOMAIN server THEN server[id] ELSE Cardinality(DOMAIN server)]
  /\ serverTitle' = [id \in DOMAIN server \cup {UploadedId(w)} |->
                       IF id \in DOMAIN server THEN serverTitle[id] ELSE ""]
  /\ lastOp' = [op |-> "serverStores"]
  /\ UNCHANGED <<photos, dragIdx, moves, persisted, pending, failed>>
  /\ UNCHANGED <<titleLog, titlePending, alerts, edits, pointer, gets>>
  /\ UNCHANGED upVars
  /\ UNCHANGED ordVars

\* lines 114-117: the 2xx response of the stored upload arrives; refresh()
XhrLoadStored(w) ==
  /\ UploadedId(w) \in DOMAIN server
  /\ XhrLoad(w, 200)

\* GET /photos of request g is served: the response is the list of that moment
GetServed(g) ==
  /\ gets[g].state = "sent"
  /\ gets' = [gets EXCEPT ![g] = [state |-> "served", list |-> ServerList]]
  /\ lastOp' = [op |-> "getServed"]
  /\ UNCHANGED <<photos, titleLog, titlePending, alerts, edits, pointer, serverTitle>>
  /\ UNCHANGED upVars
  /\ UNCHANGED ordVars
  /\ UNCHANGED extVars

\* lines 15-16: .then(r => r.json()).then(setPhotos)
SetPhotosKeepDrafts(prev, list) ==
  [k \in DOMAIN list |->
     IF \E j \in DOMAIN prev : prev[j].id = list[k].id
     THEN [list[k] EXCEPT !.draft =
             (CHOOSE p \in {prev[j] : j \in DOMAIN prev} : p.id = list[k].id).draft]
     ELSE list[k]]
SetPhotos(prev, list) == list

\* lines 15-16: the response of request g arrives and is applied
GetApplied(g) ==
  /\ gets[g].state = "served"
  /\ gets' = [gets EXCEPT ![g].state = "applied"]
  /\ photos' = SetPhotos(photos, gets[g].list)
  /\ lastOp' = [op |-> "refreshApplied", request |-> g]
  /\ UNCHANGED <<titleLog, titlePending, alerts, edits, pointer, serverTitle>>
  /\ UNCHANGED upVars
  /\ UNCHANGED ordVars
  /\ UNCHANGED extVars

\* line 17: the fetch of request g rejects; .catch(console.error)
GetFailed(g) ==
  /\ gets[g].state \in {"sent", "served"}
  /\ gets' = [gets EXCEPT ![g].state = "failed"]
  /\ lastOp' = [op |-> "refreshFailed", request |-> g]
  /\ UNCHANGED <<photos, titleLog, titlePending, alerts, edits, pointer, serverTitle>>
  /\ UNCHANGED upVars
  /\ UNCHANGED ordVars
  /\ UNCHANGED extVars

\* lines 150-160: one new file is dropped
SubmitNew == Submit(<<"h.jpg">>)

InitRefresh ==
  /\ UpIdle
  /\ photos = LoadedList(2)
  /\ lastOp = [op |-> "init"]
  /\ OrdInit
  /\ ExtInit

\* a task runs when the completion reactions of the last one have run
NoReaction == microQ = <<>>

NextRefresh ==
  \/ SubmitNew
  \/ \E w \in DOMAIN workers : UploadLoad(w)
  \/ \E w \in DOMAIN workers : ServerStores(w)
  \/ \E w \in DOMAIN workers : XhrLoadStored(w)
  \/ Finally
  \/ TimerFire
  \/ \E g \in DOMAIN gets : GetServed(g)
  \/ NoReaction /\ \E g \in DOMAIN gets : GetApplied(g)
  \/ NoReaction /\ \E g \in DOMAIN gets : GetFailed(g)
  \/ NoReaction /\ \E id \in Ids(photos) : DragSoon(id)
  \/ NoReaction /\ \E target \in Ids(photos) \cup {NoId} : DragOver(target)
  \/ NoReaction /\ DragEnd
  \/ NoReaction /\ \E j \in pending : PatchOk(j)
  \/ NoReaction /\ \E j \in pending : PatchFail(j)
  \/ NoReaction /\ InputOnce(1, "x")
  \/ NoReaction /\ SaveOnce(1)
  \/ NoReaction /\ \E j \in titlePending : TitleOk(j)

SpecRefresh == InitRefresh /\ [][NextRefresh]_vars

\* ---------------------------------------- what changes the order of the list

\* the sequence of the list and the sort_order of its photos
Order(ps) == [k \in DOMAIN ps |-> [id |-> ps[k].id, sort_order |-> ps[k].sort_order]]

\* the step is the response of a position PATCH, success or failure
IsPatchResponse == lastOp'.op \in {"patchOk", "patchFail"}

\* C37: the response of a position PATCH request, success or failure, leaves
\* the photo list as it is; the sequence and the sort_order values change
\* only by a move or commit, a deletion, the response of a title PATCH or
\* the response of a refresh
C37_StepOk ==
  /\ IsPatchResponse => photos' = photos
  /\ Order(photos') # Order(photos) =>
       \/ lastOp'.op = "dragEnd" /\ lastOp'.moved
       \/ lastOp'.op \in {"dragOverItem", "dragEndItem"}
       \/ lastOp'.op = "deleteResolved"
       \/ lastOp'.op = "titleOk"
       \/ lastOp'.op = "refreshApplied"
C37_PatchResponseLeavesList == [][C37_StepOk]_vars

\* a position PATCH failed and the client keeps the sort_order the server
\* does not have, after a refresh was applied
C37_Witness ==
  /\ lastOp.op = "patchFail"
  /\ \E k \in DOMAIN photos : server[photos[k].id] # photos[k].sort_order
  /\ \E g \in DOMAIN gets : gets[g].state = "applied"
  /\ Len(photos) = 3

\* ---------------------------------------------- the response of a refresh

\* C38: when the response of a refresh is applied the photo list becomes
\* the list of that response, element by element: no photo keeps a local
\* title draft, and the order and the sort_order values are the response's,
\* whatever the client had committed since the request was served
C38_StepOk ==
  lastOp'.op = "refreshApplied" =>
    LET list == gets[lastOp'.request].list
    IN /\ photos' = list
       /\ Len(photos') = Len(list)
       /\ \A k \in DOMAIN photos' :
            /\ photos'[k].draft = null
            /\ photos'[k].id = list[k].id
            /\ photos'[k].sort_order = list[k].sort_order
            /\ photos'[k].title = list[k].title
C38_RefreshReplacesList == [][C38_StepOk]_vars

\* a title draft was typed and never committed, the order 2, 1 was committed
\* and stored after the GET was served, and the response that was applied
\* shows the uploaded photo, no draft, and photo 1 before photo 2
C38_Witness ==
  /\ lastOp.op = "refreshApplied"
  /\ edits > 0
  /\ titleLog = <<>>
  /\ persisted = <<2, 1>>
  /\ pending = {} /\ failed = {}
  /\ server[2] = 0
  /\ IdSeq(photos) = <<1, 2, IdBase + 1>>
  /\ \A k \in DOMAIN photos : photos[k].draft = null

\* ------------------------------------- the response of a title PATCH request

\* C39: when the ok response of a title PATCH request is applied, the photo
\* with the id of the request becomes the photo the server returned, with
\* the title sent and no draft, whatever draft the card held, one typed
\* after the commit included; every other photo, the position of the
\* photo and the order of the sequence are as before
C39_StepOk ==
  lastOp'.op = "titleOk" =>
    LET j == lastOp'.request
        id == titleLog[j].id
    IN /\ IdSeq(photos') = IdSeq(photos)
       /\ \A k \in DOMAIN photos :
            IF photos[k].id = id
            THEN /\ photos'[k] = UpdatedPhoto(photos[k], j)
                 /\ photos'[k].draft = null
                 /\ photos'[k].title = titleLog[j].title
            ELSE photos'[k] = photos[k]
C39_TitleResponseReplacesOne == [][C39_StepOk]_vars

\* "x" was committed for photo 1, "y" was typed into its card while the
\* request was in flight, and the response left title "x" and no draft;
\* photo 2 keeps the draft typed into it
C39_Witness ==
  /\ lastOp.op = "titleOk"
  /\ lastOp.draft = "y"
  /\ titleLog[lastOp.request] = [id |-> 1, title |-> "x"]
  /\ IdSeq(photos) = <<1, 2>>
  /\ photos[1].title = "x"
  /\ photos[1].draft = null

\* the other card holds a draft when the response arrives, and keeps it
C39_WitnessOther ==
  /\ lastOp.op = "titleOk"
  /\ titleLog[lastOp.request].id = 1
  /\ IdSeq(photos) = <<1, 2>>
  /\ photos[1].draft = null
  /\ photos[2].draft = "y"

\* ------------------------------------------------- the removal of a photo

\* the list without its k-th element
DropAt(seq, k) == SubSeq(seq, 1, k - 1) \o SubSeq(seq, k + 1, Len(seq))

\* C40: a DELETE request is sent only when the user confirmed; a photo
\* leaves the list only in the step that applies the resolution of the
\* DELETE request for it, and that step takes out that one photo and leaves
\* the others as they were, in the same relative order and with the same
\* sort_order; the click itself, confirmed or declined, and a request that
\* is rejected leave the list unchanged
C40_StepOk ==
  /\ ~(deleting' \subseteq deleting) =>
       lastOp'.op = "deletePhoto" /\ lastOp'.confirmed
  /\ ~(Ids(photos) \subseteq Ids(photos')) =>
       /\ lastOp'.op = "deleteResolved"
       /\ \E k \in DOMAIN photos :
            /\ photos[k].id \in deleting
            /\ photos[k].id \notin deleting'
            /\ photos' = DropAt(photos, k)
  /\ lastOp'.op \in {"deletePhoto", "deleteRejected"} => photos' = photos
C40_RemovalAfterConfirmAndResolve == [][C40_StepOk]_vars

\* photo 2 of three was deleted: 1 and 3 remain in that order and keep the
\* sort_order 0 and 2
C40_Witness ==
  /\ lastOp.op = "deleteResolved"
  /\ deletes = 1
  /\ deleting = {}
  /\ Len(photos) = 2
  /\ photos[1] = LoadedList(3)[1]
  /\ photos[2] = LoadedList(3)[3]

\* the user declined: nothing is in flight and the list is the loaded one
C40_WitnessDeclined ==
  /\ lastOp = [op |-> "deletePhoto", confirmed |-> FALSE]
  /\ deleting = {}
  /\ deletes = 0
  /\ photos = LoadedList(3)

\* the request was rejected: the list is the loaded one
C40_WitnessRejected ==
  /\ lastOp.op = "deleteRejected"
  /\ deletes = 1
  /\ photos = LoadedList(3)

====
